---- MODULE Spec2Model ----
(***************************************************************************)
(* Free_room_MIET: the TTL cache (src/src/cache.py), the upstream client   *)
(* (src/src/miet_api.py) and the day mapper (src/src/scheduler.py).         *)
(*                                                                         *)
(* Spec          the client and its cache under concurrent fetch_one /     *)
(*               fetch_all calls.  A coroutine runs until it has to wait:  *)
(*               for the cache lock, for a semaphore permit or for the     *)
(*               network.  It also stops once inside each section guarded  *)
(*               by the cache lock, so that the holder of the lock is a    *)
(*               state other coroutines can meet.                          *)
(* SpecDayMapper DayMapper.update_from_items over batches of raw items.    *)
(* SpecMapDate   DayMapper.date_to_api_day and Scheduler.map_date.         *)
(* SpecAggregate Scheduler.aggregate_occupied over fetched schedules.      *)
(* SpecRoomLists free_rooms, filter_rooms_by_prefix and paginate, each     *)
(*               applied to arguments drawn at the start.                  *)
(* SpecStore     save and load of groups.json and rooms.json.              *)
(* SpecBot       one chat session of bot.py: its handlers, each run whole, *)
(*               in any order, on upstream answers drawn per handler.      *)
(* SpecEnsure    concurrent ensure_rooms calls and the build_rooms.py      *)
(*               processes they start.  A caller runs until it has to wait *)
(*               for _rooms_build_lock or for its build process.           *)
(* SpecMapping   update_from_items, map_date and aggregate_occupied calls  *)
(*               on one day mapper, in any order.                          *)
(* SpecGroups    init_context on a groups.json of any content, then        *)
(*               /refresh_groups commands (src/src/groups.py).             *)
(***************************************************************************)
EXTENDS Integers, Sequences, FiniteSets, TLC

\* ------------------------------------------------------------------ bounds
NCalls == 2      \* concurrent fetch_one / fetch_all calls on one client
MaxBatch == 2    \* longest group sequence handed to fetch_all
MaxTasks == 3    \* _get_schedule coroutines created in one run
MaxTime == 2     \* last tick of the wall clock (time.time())
Width == 2       \* MietAPI(concurrency=Width)
TTL == 1         \* TTLCache(ttl_seconds=TTL)
MaxItems == 3    \* longest batch handed to update_from_items
MaxUpdates == 2  \* update_from_items calls in one run
MaxDate == 8     \* calendar dates, as proleptic ordinals 1..MaxDate
MaxData == 2     \* longest "Data" list of a schedule document
MaxAggs == 1     \* aggregate_occupied calls in one run
MaxRooms == 3    \* longest room list handed to filter_rooms_by_prefix
MaxLen == 5      \* longest list handed to paginate
MaxPage == 3     \* largest page index asked for
MaxPageSize == 3 \* largest page_size
MaxNames == 3    \* longest list handed to save_groups / save_rooms
MaxSaves == 1    \* lists saved from outside in one run
NCallers == 3    \* ensure_rooms calls in one run
MaxPerCall == 1  \* items given to one call where all mapper calls interleave
MaxRefreshes == 2 \* /refresh_groups commands in one run
PAGE_SIZE == 2   \* bot.py:36 PAGE_SIZE (40 there)

Groups == {"g1", "g2"}

Calls == 1..NCalls
TaskIds == Calls \X (1..MaxBatch)

\* ------------------------------------------------------------------ values
\* Python None
Null == [tag |-> "None", group |-> "", at |-> 0]

\* an exception object standing where a result would
Exc == [tag |-> "Exception", group |-> "", at |-> 0]

\* A schedule document as upstream serves it: which group it is for and when
\* it was served.
Record(g, at) == [tag |-> "dict", group |-> g, at |-> at]

\* self._data.get(key) found nothing
NoEntry == [has |-> FALSE, exp |-> 0, val |-> Null]

\* the tuple (expires_at, value) under a key
Entry(expires_at, value) == [has |-> TRUE, exp |-> expires_at, val |-> value]

\* the coroutine running TTLCache.clear
Clearer == <<0, 0>>

Outcomes == {"ok", "error", "timeout"}

\* ------------------------------------------------------------------- state
VARIABLES
    hasCache,   \* MietAPI._cache is set
    clock,      \* time.time()
    permits,    \* MietAPI._semaphore._value
    lock,       \* who holds TTLCache._lock
    data,       \* TTLCache._data: key -> NoEntry or [exp, val]
    calls,      \* fetch_one / fetch_all invocations
    task,       \* the _get_schedule coroutines of those invocations
    clearPc,    \* position of the TTLCache.clear caller
    dayToNumber,\* DayMapper._day_to_number
    lastBatch,  \* the items handed to the latest update_from_items call
    history,    \* how often each (day_name, day_num) was counted, all calls
    updates,    \* update_from_items calls made
    apiDay,     \* what the latest date_to_api_day / map_date call returned
    agg,        \* the latest aggregate_occupied call: arguments, schedules, result
    view,       \* a free_rooms / filter_rooms_by_prefix / paginate call
    store,      \* groups.json and rooms.json, and what was last loaded from each
    saves,      \* lists saved from outside so far
    roomsFile,  \* rooms.json as ensure_rooms and build_rooms.py see it
    buildLock,  \* _rooms_build_lock: its holder and the callers waiting for it
    ens,        \* the ensure_rooms calls
    bot,        \* ctx.scheduler's lists, the session's FSM state and data, the last reply
    grp         \* groups.json, the groups of the context, the latest discovery

fetchVars == <<hasCache, clock, permits, lock, data, calls, task, clearPc>>
dayVars == <<dayToNumber, lastBatch, history, updates>>
schedVars == <<apiDay, agg, view>>
storeVars == <<store, saves>>
ensureVars == <<roomsFile, buildLock, ens>>
vars == <<fetchVars, dayVars, schedVars, storeVars, ensureVars, bot, grp>>

\* A _get_schedule coroutine: where it is (pc), its group, the `now` of
\* TTLCache.get, the value it has for its caller (from the cache or from the
\* factory) and where that value came from (outcome: "cached", or how the
\* upstream request ended).
IdleTask ==
    [pc |-> "idle", group |-> "g1", now |-> 0, value |-> Null, outcome |-> "none"]

IdleCall ==
    [pc |-> "idle", kind |-> "none", groups |-> <<>>, done |-> <<>>, ret |-> <<>>]

\* ------------------------------------------------- cache.py, pure parts
\* the comparison turned round
ExpiredReversed(expires_at, now) == expires_at > now

\* cache.py:21  `if expires_at < now`
Expired(expires_at, now) == expires_at < now

\* every factory result is stored
ShouldStoreAlways(value) == TRUE

\* cache.py:40  `if value is not None`
ShouldStore(value) == value # Null

\* a section entered without looking at the lock
LockFreeAlways(l) == TRUE

\* cache.py:16, 28, 32  entering `async with self._lock`
LockFree(l) == l = {}

\* a lock that is kept after its section
ReleaseNever(l, who) == l

\* cache.py:16, 28, 32  leaving `async with self._lock`
Release(l, who) == l \ {who}

\* a request sent without a permit
CanAcquireAlways(p) == TRUE

\* miet_api.py:43  entering `async with self._semaphore`
CanAcquire(p) == p > 0

\* a permit that is kept when the request failed
ReleasedOnSuccess(p, outcome) == IF outcome = "ok" THEN p + 1 ELSE p

\* miet_api.py:43-50  leaving `async with self._semaphore`, by return from
\* the try or from the except branch
Released(p, outcome) == p + 1

\* a factory bound to one group, whatever group is asked for
PostResultOneGroup(outcome, g, at) ==
    IF outcome = "ok" THEN Record("g1", at) ELSE Null

\* a _post_schedule without its `except Exception`
PostResultRaises(outcome, g, at) ==
    IF outcome = "ok" THEN Record(g, at) ELSE Exc

\* miet_api.py:44-50  what _post_schedule hands back for an upstream outcome
PostResult(outcome, g, at) ==
    IF outcome = "ok" THEN Record(g, at) ELSE Null

\* what a finished _get_schedule coroutine evaluates to
TaskResult(t) == t.value

\* results in the order the coroutines finished
GatherAsCompleted(c) ==
    [i \in 1..Len(calls[c].groups) |-> TaskResult(task[<<c, calls[c].done[i]>>])]

\* miet_api.py:81  asyncio.gather(*tasks, return_exceptions=True):
\* results by position in the task list
Gather(c) == [i \in 1..Len(calls[c].groups) |-> TaskResult(task[<<c, i>>])]

\* miet_api.py:82-88  the loop turning gathered results into schedules
RECURSIVE Schedules(_)
Schedules(results) ==
    IF results = <<>> THEN <<>>
    ELSE <<(IF Head(results) = Exc THEN Null ELSE Head(results))>>
             \o Schedules(Tail(results))

RECURSIVE SeqsUpTo(_)
SeqsUpTo(n) ==
    IF n = 0 THEN {<<>>}
    ELSE SeqsUpTo(n - 1) \cup [1..n -> Groups]

\* ------------------------------------------- scheduler.py, the day mapper
DayNames == {"Mon", "Tue"}
NoDay == ""                 \* no "Day" key, None or an empty name
DayNums == 0..2             \* the day numbers upstream uses
NoNum == -1                 \* day_num is None; no entry in _day_to_number

\* JSON values under "DayNumber" / "DayNum": absent or null, an integer, a
\* string that int() rejects.
NoneVal == [kind |-> "none", n |-> 0]
IntVal(n) == [kind |-> "int", n |-> n]
BadStr == [kind |-> "str", n |-> 0]

RawItem(day, number, num) == [Day |-> day, DayNumber |-> number, DayNum |-> num]

\* The raw class items the batches are drawn from.
Items ==
    { RawItem("Mon", IntVal(1), NoneVal), RawItem("Mon", IntVal(2), NoneVal),
      RawItem("Tue", IntVal(1), NoneVal), RawItem("Mon", IntVal(0), NoneVal),
      RawItem("Mon", NoneVal, IntVal(2)), RawItem("Mon", NoneVal, NoneVal),
      RawItem(NoDay, IntVal(1), NoneVal), RawItem("Mon", BadStr, IntVal(1)) }

\* Python truth value of a JSON value
Truthy(v) == IF v.kind = "int" THEN v.n # 0 ELSE v.kind # "none"

\* Python `a or b`
PyOr(a, b) == IF Truthy(a) THEN a ELSE b

\* scheduler.py:120-124  int(day_num), None when it is None or int() raises
ToInt(v) == IF v.kind = "int" THEN v.n ELSE NoNum

\* scheduler.py:117-125  extract_day
extract_day(item) ==
    [day_name |-> item.Day, day_num |-> ToInt(PyOr(item.DayNumber, item.DayNum))]

\* scheduler.py:138-139  one item counted into the tallies of its day name,
\* kept in the order the day numbers were first met (a dict's order)
Count1(counts, num) ==
    IF \E i \in 1..Len(counts) : counts[i].num = num
    THEN [i \in 1..Len(counts) |->
             IF counts[i].num = num
             THEN [num |-> num, count |-> counts[i].count + 1]
             ELSE counts[i]]
    ELSE Append(counts, [num |-> num, count |-> 1])

\* scheduler.py:133-139  the loop building stats
RECURSIVE Tally(_, _)
Tally(items, stats) ==
    IF items = <<>> THEN stats
    ELSE LET e == extract_day(Head(items)) IN
         IF e.day_name = NoDay \/ e.day_num = NoNum
         THEN Tally(Tail(items), stats)
         ELSE Tally(Tail(items),
                    [stats EXCEPT ![e.day_name] = Count1(@, e.day_num)])

\* scheduler.py:145  max(counts.items(), key=lambda kv: kv[1])[0]: the first
\* of the largest counts
BestNum(counts) ==
    LET m == CHOOSE c \in {counts[i].count : i \in 1..Len(counts)} :
                 \A j \in 1..Len(counts) : counts[j].count <= c
        i == CHOOSE k \in 1..Len(counts) :
                 /\ counts[k].count = m
                 /\ \A j \in 1..Len(counts) : counts[j].count = m => k <= j
    IN counts[i].num

\* a mapper that rebuilds the mapping from each batch alone
UpdatedAnew(mapping, items) ==
    LET stats == Tally(items, [d \in DayNames |-> <<>>]) IN
    [d \in DayNames |-> IF stats[d] = <<>> THEN NoNum ELSE BestNum(stats[d])]

\* scheduler.py:132-146  the mapping update_from_items leaves behind
Updated(mapping, items) ==
    LET stats == Tally(items, [d \in DayNames |-> <<>>]) IN
    [d \in DayNames |-> IF stats[d] = <<>> THEN mapping[d] ELSE BestNum(stats[d])]

RECURSIVE BatchesUpTo(_)
BatchesUpTo(n) ==
    IF n = 0 THEN {<<>>}
    ELSE BatchesUpTo(n - 1) \cup [1..n -> Items]

\* ------------------------------------------- scheduler.py, class items
\* A Python str is the sequence of its code points ("0" is 48, "A" is 65).
\* The string of the decimal digits ds: DigitStr(<<1, 0, 1>>) is "101".
DigitStr(ds) == [i \in 1..Len(ds) |-> 48 + ds[i]]

\* JSON scalars under "Code", "code", "TimeCode", "TimeID", "Name": absent or
\* null, an integer, a string.
JNone == [kind |-> "none", n |-> 0, s |-> <<>>]
JInt(n) == [kind |-> "int", n |-> n, s |-> <<>>]
JStr(s) == [kind |-> "str", n |-> 0, s |-> s]

\* Python truth value of a JSON scalar
JTruthy(v) ==
    IF v.kind = "int" THEN v.n # 0
    ELSE IF v.kind = "str" THEN v.s # <<>>
    ELSE FALSE

\* Python `a or b`
JOr(a, b) == IF JTruthy(a) THEN a ELSE b

\* Python str(v), for the integers 0..9
str(v) ==
    IF v.kind = "int" THEN JStr(DigitStr(<<v.n>>))
    ELSE IF v.kind = "str" THEN v
    ELSE JStr(<<78, 111, 110, 101>>)

\* scheduler.py:97-103  extract_room_name
extract_room_name(item) ==
    IF item.Room.kind = "dict" THEN item.Room.Name
    ELSE IF item.Room.kind = "str" THEN item.Room.Name
    ELSE JNone

\* scheduler.py:106-114  extract_time_code
extract_time_code(item) ==
    IF item.Time.kind = "dict"
    THEN LET code == JOr(item.Time.Code, item.Time.code) IN
         IF code # JNone THEN str(code) ELSE JNone
    ELSE IF item.Time.kind = "str" THEN JStr(item.Time.s)
    ELSE LET code == JOr(item.TimeCode, item.TimeID) IN
         IF code # JNone THEN str(code) ELSE JNone

\* A schedule as fetch_one / fetch_all hand it to the scheduler: None, or the
\* JSON object upstream served, with or without "Times", with "Data" absent,
\* null or a list.
NoSchedule == [tag |-> "None", times |-> FALSE, data |-> "absent", Data |-> <<>>]
Schedule(times, key, items) ==
    [tag |-> "dict", times |-> times, data |-> key, Data |-> items]

\* Python truth value of a schedule: None and {} are false
ScheduleTruthy(schedule) ==
    schedule.tag = "dict" /\ (schedule.times \/ schedule.data # "absent")

\* schedule.get("Data"): None when the key is absent or null
GetData(schedule) == IF schedule.data = "list" THEN schedule.Data ELSE <<>>

\* ------------------------------------- scheduler.py, date_to_api_day
\* datetime.date.weekday(): Monday is 0; ordinal 1 (0001-01-01) is a Monday
weekday(target_date) == (target_date + 6) % 7

\* scheduler.py:13-21  the names stand for the Russian ones, in their order
RU_WEEKDAYS == <<"Mon", "Tue", "Wed", "Thu", "Fri", "Sat", "Sun">>

\* the learned number is ignored
date_to_api_dayUnlearned(mapping, target_date) ==
    [day_name |-> RU_WEEKDAYS[weekday(target_date) + 1],
     day_num |-> weekday(target_date) + 1]

\* scheduler.py:153-156  DayMapper.date_to_api_day
date_to_api_day(mapping, target_date) ==
    LET day_name == RU_WEEKDAYS[weekday(target_date) + 1] IN
    [day_name |-> day_name,
     day_num |-> IF day_name \in DOMAIN mapping /\ mapping[day_name] # NoNum
                 THEN mapping[day_name]
                 ELSE weekday(target_date) + 1]

\* The class items the schedules are made of.  "Time" is absent or null, a
\* bare string, or an object with "Code" / "code"; "Room" is absent or null,
\* a bare string, or an object with "Name".
ClassItems ==
    LET NoTime == [kind |-> "none", s |-> <<>>, Code |-> JNone, code |-> JNone]
        TimeStr(ds) ==
            [kind |-> "str", s |-> DigitStr(ds), Code |-> JNone, code |-> JNone]
        TimeDict(Code, code) ==
            [kind |-> "dict", s |-> <<>>, Code |-> Code, code |-> code]
        NoRoom == [kind |-> "none", Name |-> JNone]
        RoomStr(ds) == [kind |-> "str", Name |-> JStr(DigitStr(ds))]
        RoomDict(name) == [kind |-> "dict", Name |-> name]
        ClassItem(day, number, num, time, timecode, room) ==
            [Day |-> day, DayNumber |-> number, DayNum |-> num, Time |-> time,
             TimeCode |-> timecode, TimeID |-> JNone, Room |-> room]
    IN
    { ClassItem("Mon", IntVal(1), NoneVal, TimeStr(<<3>>), JNone, RoomStr(<<1, 0, 1>>)),
      ClassItem("Tue", IntVal(1), NoneVal, TimeStr(<<3>>), JNone, RoomStr(<<1, 0, 2>>)),
      ClassItem(NoDay, NoneVal, NoneVal, TimeStr(<<3>>), JNone, RoomStr(<<1, 0, 3>>)),
      ClassItem("Mon", NoneVal, IntVal(2), TimeDict(JInt(3), JNone), JNone,
                RoomDict(JStr(DigitStr(<<2, 0, 1>>)))),
      ClassItem("Mon", IntVal(1), NoneVal, NoTime, JInt(4), RoomStr(<<1, 0, 1>>)),
      ClassItem("Mon", IntVal(1), NoneVal, TimeStr(<<3>>), JNone, NoRoom),
      ClassItem("Mon", IntVal(1), NoneVal, NoTime, JNone, RoomStr(<<2, 0, 2>>)),
      ClassItem("Mon", IntVal(0), NoneVal, TimeStr(<<3>>), JNone, RoomStr(<<1, 0, 6>>)),
      ClassItem("Mon", IntVal(2), NoneVal, TimeDict(JNone, JStr(DigitStr(<<3>>))), JNone,
                RoomDict(JNone)),
      ClassItem("Mon", IntVal(1), NoneVal, NoTime, JInt(0), RoomStr(<<1, 0, 7>>)) }

\* the lists of at most n elements of S
RECURSIVE ListsUpTo(_, _)
ListsUpTo(S, n) ==
    IF n = 0 THEN {<<>>}
    ELSE ListsUpTo(S, n - 1) \cup [1..n -> S]

\* What a fetch can hand to the scheduler for one group.
Schedules1 ==
    {NoSchedule, Schedule(FALSE, "absent", <<>>), Schedule(TRUE, "absent", <<>>),
     Schedule(TRUE, "null", <<>>)}
        \cup {Schedule(TRUE, "list", items) : items \in ListsUpTo(ClassItems, MaxData)}

\* What fetch_all(self.groups) can hand to the scheduler.
ScheduleLists == ListsUpTo(Schedules1, MaxBatch)

\* ------------------------------------ scheduler.py, aggregate_occupied
\* scheduler.py:148-151  DayMapper.update_from_schedules
RECURSIVE update_from_schedules(_, _)
update_from_schedules(mapping, schedules) ==
    IF schedules = <<>> THEN mapping
    ELSE update_from_schedules(
             IF ScheduleTruthy(Head(schedules))
             THEN Updated(mapping, GetData(Head(schedules)))
             ELSE mapping,
             Tail(schedules))

\* scheduler.py:204-213  whether the loop adds the item's room to occupied
ItemCounts(item, day_name, day_number, time_code) ==
    /\ ~ (extract_day(item).day_name # NoDay /\ extract_day(item).day_name # day_name)
    /\ ~ (/\ day_number # NoNum
          /\ extract_day(item).day_num # NoNum
          /\ extract_day(item).day_num # day_number)
    /\ extract_time_code(item) = str(time_code)
    /\ JTruthy(extract_room_name(item))

\* scheduler.py:197-214  the loops of aggregate_occupied over the fetched
\* schedules: (occupied, success), or the TypeError of iterating a null
\* "Data".
aggregate_occupied(schedules, day_name, day_number, time_code) ==
    LET used == {i \in 1..Len(schedules) : ScheduleTruthy(schedules[i])}
        items == UNION {{schedules[i].Data[k] : k \in 1..Len(schedules[i].Data)} :
                           i \in used}
    IN
    IF \E i \in used : schedules[i].data = "null"
    THEN [raised |-> TRUE, occupied |-> {}, success |-> 0]
    ELSE [raised |-> FALSE,
          occupied |-> {extract_room_name(item).s :
                           item \in {x \in items :
                               ItemCounts(x, day_name, day_number, time_code)}},
          success |-> Cardinality(used)]

\* --------------------------------------------- scheduler.py, room lists
\* Room names: "101", "102", "103", "201", "A1", "7".
RoomNames ==
    {DigitStr(<<1, 0, 1>>), DigitStr(<<1, 0, 2>>), DigitStr(<<1, 0, 3>>),
     DigitStr(<<2, 0, 1>>), <<65, 49>>, DigitStr(<<7>>)}

\* Python a < b on str: by code point, a proper prefix first
StrLess(a, b) ==
    \E i \in 1..Len(b) :
        /\ \A j \in 1..(i - 1) : j <= Len(a) /\ a[j] = b[j]
        /\ (i > Len(a) \/ a[i] < b[i])

\* Python sorted(q) on a list of str
RECURSIVE sorted(_)
sorted(q) ==
    IF q = <<>> THEN <<>>
    ELSE LET k == CHOOSE i \in 1..Len(q) :
                      /\ \A j \in 1..Len(q) : ~StrLess(q[j], q[i])
                      /\ \A j \in 1..(i - 1) : StrLess(q[i], q[j])
         IN <<q[k]>> \o sorted([i \in 1..(Len(q) - 1) |->
                                   IF i < k THEN q[i] ELSE q[i + 1]])

\* a set iterated in some order
RECURSIVE AsList(_)
AsList(S) ==
    IF S = {} THEN <<>>
    ELSE LET x == CHOOSE y \in S : TRUE IN <<x>> \o AsList(S \ {x})

\* the occupied rooms are not taken out
free_roomsAll(rooms, occupied) ==
    sorted(AsList({rooms[i] : i \in 1..Len(rooms)}))

\* scheduler.py:216-218  Scheduler.free_rooms, rooms being self.rooms
free_rooms(rooms, occupied) ==
    LET occupied_set == {r \in occupied : r # <<>>} IN
    sorted(AsList({rooms[i] : i \in 1..Len(rooms)} \ occupied_set))

\* "all"
ALL == JStr(<<97, 108, 108>>)

\* only the first character is compared
filter_rooms_by_prefix1(rooms, prefix) ==
    IF ~JTruthy(prefix) \/ prefix = ALL THEN sorted(rooms)
    ELSE sorted(SelectSeq(rooms, LAMBDA room :
                    Len(room) >= 1 /\ room[1] = prefix.s[1]))

\* scheduler.py:242-245  filter_rooms_by_prefix
filter_rooms_by_prefix(rooms, prefix) ==
    IF ~JTruthy(prefix) \/ prefix = ALL THEN sorted(rooms)
    ELSE sorted(SelectSeq(rooms, LAMBDA room :
                    /\ Len(prefix.s) <= Len(room)
                    /\ SubSeq(room, 1, Len(prefix.s)) = prefix.s))

\* scheduler.py:248-253  corpus_prefixes
corpus_prefixes(rooms) ==
    sorted(AsList({SubSeq(rooms[i], 1, 2) : i \in
        {j \in 1..Len(rooms) :
            /\ Len(rooms[j]) >= 2
            /\ \A k \in 1..2 : rooms[j][k] \in 48..57}}))

\* the window ends one item late
paginateLong(items, page, page_size) ==
    LET start == page * page_size
        end == start + page_size + 1
    IN SubSeq(items, (IF start > Len(items) THEN Len(items) ELSE start) + 1,
              IF end > Len(items) THEN Len(items) ELSE end)

\* scheduler.py:256-259  paginate: the slice items[start:end]
paginate(items, page, page_size) ==
    LET Index(i) == IF i < 0
                    THEN (IF i + Len(items) < 0 THEN 0 ELSE i + Len(items))
                    ELSE (IF i > Len(items) THEN Len(items) ELSE i)
        start == page * page_size
        end == start + page_size
    IN SubSeq(items, Index(start) + 1, Index(end))

\* Scheduler.rooms: the sorted, duplicate-free lists load_rooms returns
Directories == {sorted(AsList(S)) : S \in SUBSET RoomNames}

\* The calls of the room list functions: which function, its arguments, and
\* its result once it has run.
View(op, rooms, occupied, prefix, page, page_size) ==
    [op |-> op, done |-> FALSE, rooms |-> rooms, occupied |-> occupied,
     prefix |-> prefix, page |-> page, page_size |-> page_size, result |-> <<>>]

Views ==
    {View("free_rooms", rooms, occupied, JNone, 0, 1) :
        rooms \in Directories,
        occupied \in SUBSET {DigitStr(<<1, 0, 1>>), DigitStr(<<1, 0, 2>>),
                             DigitStr(<<2, 0, 1>>), DigitStr(<<3, 0, 0>>), <<>>}}
    \cup
    {View("filter_rooms_by_prefix", rooms, {}, prefix, 0, 1) :
        rooms \in ListsUpTo(RoomNames, MaxRooms),
        prefix \in {JNone, JStr(<<>>), ALL, JStr(DigitStr(<<1, 0>>)),
                    JStr(DigitStr(<<2, 0>>)), JStr(DigitStr(<<2, 1>>))}}
    \cup
    {View("paginate", items, {}, JNone, page, page_size) :
        items \in ListsUpTo({DigitStr(<<1, 0, 1>>), DigitStr(<<1, 0, 2>>),
                             DigitStr(<<2, 0, 1>>)}, MaxLen),
        page \in 0..MaxPage, page_size \in 1..MaxPageSize}

\* ------------------------------------- groups.py / rooms.py, the stores
Stores == {"groups", "rooms"}

\* The names handed to save: "", " ", "a", " a", "a ", "b", "a b" and the
\* one-character name of a double quote.
RawNames ==
    {<<>>, <<32>>, <<97>>, <<32, 97>>, <<97, 32>>, <<98>>, <<97, 32, 98>>, <<34>>}

\* Python str.strip(), the white space being the blank
strip(x) ==
    LET inked == {i \in 1..Len(x) : x[i] # 32} IN
    IF inked = {} THEN <<>>
    ELSE SubSeq(x, CHOOSE i \in inked : \A j \in inked : i <= j,
                   CHOOSE i \in inked : \A j \in inked : j <= i)

\* the names are not stripped
normalizeUnstripped(names) ==
    sorted(AsList({names[i] : i \in {j \in 1..Len(names) : strip(names[j]) # <<>>}}))

\* groups.py:33-35 and rooms.py:17-19  _normalize_groups, _normalize_rooms
normalize(names) ==
    sorted(AsList({strip(names[i]) : i \in
        {j \in 1..Len(names) : names[j] # <<>> /\ strip(names[j]) # <<>>}}))

\* groups.py:148 and rooms.py:34  json.dumps(names, ensure_ascii=False,
\* indent=2): [] for no names, else one quoted name per line, with \" and \\
\* escaped
dumps(names) ==
    LET RECURSIVE Escaped(_)
        Escaped(x) ==
            IF x = <<>> THEN <<>>
            ELSE (IF Head(x) \in {34, 92} THEN <<92, Head(x)>> ELSE <<Head(x)>>)
                     \o Escaped(Tail(x))
        RECURSIVE Lines(_)
        Lines(q) ==
            IF q = <<>> THEN <<>>
            ELSE <<32, 32, 34>> \o Escaped(Head(q)) \o <<34>>
                     \o (IF Len(q) > 1 THEN <<44, 10>> ELSE <<10>>)
                     \o Lines(Tail(q))
    IN IF names = <<>> THEN <<91, 93>> ELSE <<91, 10>> \o Lines(names) \o <<93>>

\* groups.py:141 and rooms.py:26  json.loads(text): an array of strings, of
\* null and of unsigned integers, or a bare string, integer or null; value
\* holds the elements of the array, or the bare value alone; ok is false for
\* a text json.loads refuses
loads(text) ==
    LET White == {32, 10}
        Digit == 48..57
        Fail == [ok |-> FALSE, kind |-> "none", value |-> <<>>]
        Kind == [end |-> "list", endstr |-> "str", endint |-> "int", endnone |-> "none"]
        RunEnd(i) == CHOOSE j \in i..Len(text) :
                         /\ \A k \in i..j : text[k] \in Digit
                         /\ j < Len(text) => text[j + 1] \notin Digit
        RECURSIVE Number(_, _)
        Number(i, j) == IF i > j THEN 0 ELSE Number(i, j - 1) * 10 + (text[j] - 48)
        RECURSIVE Parse(_, _, _, _)
        Parse(i, at, cur, names) ==
            IF i > Len(text)
            THEN IF at \in DOMAIN Kind
                 THEN [ok |-> TRUE, kind |-> Kind[at], value |-> names]
                 ELSE Fail
            ELSE LET c == text[i]
                     top == at = "start"
                     here == at \in {"start", "first", "next"}
                 IN
                 IF at \in {"string", "top"}
                 THEN IF c = 34
                      THEN Parse(i + 1, IF at = "top" THEN "endstr" ELSE "after", <<>>,
                                 Append(names, JStr(cur)))
                      ELSE IF c = 92
                           THEN IF i < Len(text) /\ text[i + 1] \in {34, 92}
                                THEN Parse(i + 2, at, Append(cur, text[i + 1]), names)
                                ELSE Fail
                           ELSE Parse(i + 1, at, Append(cur, c), names)
                 ELSE IF c \in White THEN Parse(i + 1, at, cur, names)
                 ELSE IF top /\ c = 91 THEN Parse(i + 1, "first", cur, names)
                 ELSE IF here /\ c = 34
                      THEN Parse(i + 1, IF top THEN "top" ELSE "string", <<>>, names)
                 ELSE IF here /\ c \in Digit
                      THEN IF c = 48 /\ RunEnd(i) > i THEN Fail
                           ELSE Parse(RunEnd(i) + 1, IF top THEN "endint" ELSE "after", cur,
                                      Append(names, JInt(Number(i, RunEnd(i)))))
                 ELSE IF here /\ i + 3 <= Len(text)
                              /\ SubSeq(text, i, i + 3) = <<110, 117, 108, 108>>
                      THEN Parse(i + 4, IF top THEN "endnone" ELSE "after", cur,
                                 IF top THEN names ELSE Append(names, JNone))
                 ELSE IF at \in {"first", "after"} /\ c = 93
                      THEN Parse(i + 1, "end", cur, names)
                 ELSE IF at = "after" /\ c = 44 THEN Parse(i + 1, "next", cur, names)
                 ELSE Fail
    IN Parse(1, "start", <<>>, <<>>)

\* ------------------------------------------------- rooms.py, ensure_rooms
Callers == 1..NCallers

\* rooms.json: absent, or present with its text
File(exists, text) == [exists |-> exists, text |-> text]

\* rooms.py:22-29 and groups.py:137-144  load_rooms(path), load_groups(path):
\* the normalisation iterates over what json.loads gave (the characters of a
\* string), skips what is false (None, 0, "") and calls strip() on the rest;
\* every exception is caught and gives []
load_rooms(file) ==
    LET Strings(given) == [i \in 1..Len(given) |-> given[i].s]
        Normalized(items) ==
            IF \E i \in 1..Len(items) : items[i].kind = "int" /\ items[i].n # 0
            THEN <<>>
            ELSE normalize(Strings(SelectSeq(items, LAMBDA v : v.kind = "str")))
        Chars(x) == [i \in 1..Len(x) |-> JStr(<<x[i]>>)]
        Loaded(parsed) ==
            IF ~parsed.ok \/ parsed.kind \in {"int", "none"} THEN <<>>
            ELSE Normalized(IF parsed.kind = "str" THEN Chars(parsed.value[1].s)
                            ELSE parsed.value)
    IN IF file.exists THEN Loaded(loads(file.text)) ELSE <<>>

\* rooms.py:32-36  save_rooms(rooms, path)
save_rooms(rooms) == File(TRUE, dumps(normalize(rooms)))

\* What a run starts with: no file, the file of an empty list, a file cut
\* short, the file of the rooms 101, 201.
RoomFiles ==
    {File(FALSE, <<>>), File(TRUE, <<91, 93>>), File(TRUE, <<91, 10>>),
     save_rooms(<<DigitStr(<<1, 0, 1>>), DigitStr(<<2, 0, 1>>)>>)}

\* The room names one build_rooms.py run collects from the schedules: none
\* (no groups, no schedules, no rooms), 102 and 101, or a blank name only.
Found == {{}, {DigitStr(<<1, 0, 2>>), DigitStr(<<1, 0, 1>>)}, {<<32>>}}

\* scripts/build_rooms.py:47-51  the file after a run that collected rooms
build_rooms(file, rooms) ==
    IF rooms = {} THEN file ELSE save_rooms(sorted(AsList(rooms)))

\* ----------------------------------------------- groups.py, discovery
\* groups.py:116-134  fetch_groups(allow_guess); api, page and guess are the
\* names the listing endpoint, the schedule page and the probing hand to
\* _normalize_groups when asked (none when the request fails); tried lists
\* the strategies asked, in the order they were
fetch_groupsPageFirst(allow_guess, api, page, guess) ==
    IF normalize(page) # <<>>
    THEN [groups |-> normalize(page), tried |-> <<"page">>]
    ELSE IF normalize(api) # <<>>
    THEN [groups |-> normalize(api), tried |-> <<"page", "api">>]
    ELSE [groups |-> normalize(guess), tried |-> <<"page", "api", "guess">>]

fetch_groups(allow_guess, api, page, guess) ==
    IF normalize(api) # <<>>
    THEN [groups |-> normalize(api), tried |-> <<"api">>]
    ELSE IF normalize(page) # <<>>
    THEN [groups |-> normalize(page), tried |-> <<"api", "page">>]
    ELSE IF allow_guess
    THEN [groups |-> normalize(guess), tried |-> <<"api", "page", "guess">>]
    ELSE [groups |-> <<>>, tried |-> <<"api", "page">>]

\* a refresh that saves whatever was discovered
refresh_groupsAlways(file, allow_guess, api, page, guess) ==
    LET f == fetch_groups(allow_guess, api, page, guess) IN
    [groups |-> f.groups, tried |-> f.tried, file |-> save_rooms(f.groups)]

\* groups.py:151-155  refresh_groups(path, allow_guess); save_groups
\* (147-148) writes as save_rooms does
refresh_groups(file, allow_guess, api, page, guess) ==
    LET f == fetch_groups(allow_guess, api, page, guess) IN
    [groups |-> f.groups, tried |-> f.tried,
     file |-> IF f.groups # <<>> THEN save_rooms(f.groups) ELSE file]

\* an ensure_rooms call: where it is, what it returned, whether it started
\* a build, and whose build was running when it was made (0: nobody's)
Ensure(pc, ret, built, during) ==
    [pc |-> pc, ret |-> ret, built |-> built, during |-> during]

\* the callers whose build_rooms.py process has not been awaited to its end
Building == {c \in Callers : ens[c].pc \in {"fetching", "exiting"}}

\* every caller takes the lock at once
acquiredAlways(l) == TRUE

\* asyncio.Lock.acquire returns without waiting: the lock is free and nobody
\* is queued for it
acquired(l) == l.holder = 0 /\ l.waiters = <<>>

\* ------------------------------------------------------------- bot.py
\* FSMContext data of the session.  An absent key is 0 for target_date, ""
\* for day_name, JNone for time_code and corpus_prefix (strings when
\* present) and has = FALSE for rooms_list.  With rooms_list goes `of`: the
\* day name, day number, time code and corpus prefix its aggregation was
\* run for (kept for the record; the code does not store it).
NoData ==
    [target_date |-> 0, day_name |-> "", day_number |-> NoNum, time_code |-> JNone,
     corpus_prefix |-> JNone,
     rooms_list |-> [has |-> FALSE, list |-> <<>>, of |-> <<"", NoNum, JNone, JNone>>]]

\* What a handler answered: which message; for a result page its items, the
\* total and the page; whether the handler ran an aggregation and, if it
\* returned, its success count.
Reply(kind, items, total, page, ran, success) ==
    [kind |-> kind, items |-> items, total |-> total, page |-> page,
     ran |-> ran, success |-> success]

Said(kind) == Reply(kind, <<>>, 0, 0, FALSE, 0)

\* What upstream answers for one group during a session: nothing, the empty
\* object, a null "Data", one Monday class at time "3" in room 101.
BotSchedules ==
    {NoSchedule, Schedule(FALSE, "absent", <<>>), Schedule(TRUE, "null", <<>>)}
        \cup {Schedule(TRUE, "list", <<x>>) :
                  x \in {y \in ClassItems : /\ y.Day = "Mon" /\ y.DayNumber = IntVal(1)
                                             /\ y.Time.kind = "str"
                                             /\ y.Room.kind = "str"}}

\* scheduler.py:221-231  parse_date(value), as a proleptic ordinal, 0 for
\* None; year is date.today().year.  strptime takes "%Y" as four digits,
\* "%m" and "%d" as one or two, and checks "%d.%m" as a day of 1900.
parse_date(value, year) ==
    LET RECURSIVE Split(_, _)
        Split(x, sep) ==
            LET at == {i \in 1..Len(x) : x[i] = sep} IN
            IF at = {} THEN <<x>>
            ELSE LET i == CHOOSE k \in at : \A j \in at : k <= j IN
                 <<SubSeq(x, 1, i - 1)>> \o Split(SubSeq(x, i + 1, Len(x)), sep)
        RECURSIVE Num(_)
        Num(f) == IF f = <<>> THEN 0
                  ELSE 10 * Num(SubSeq(f, 1, Len(f) - 1)) + (f[Len(f)] - 48)
        Digits(f, lens) == Len(f) \in lens /\ \A i \in 1..Len(f) : f[i] \in 48..57
        Leap(y) == y % 4 = 0 /\ (y % 100 # 0 \/ y % 400 = 0)
        DaysIn(m, y) == IF m = 2 THEN (IF Leap(y) THEN 29 ELSE 28)
                        ELSE IF m \in {4, 6, 9, 11} THEN 30 ELSE 31
        RECURSIVE Before(_, _)
        Before(m, y) == IF m = 1 THEN 0 ELSE Before(m - 1, y) + DaysIn(m - 1, y)
        Valid(y, m, d) == y >= 1 /\ m \in 1..12 /\ d >= 1 /\ d <= DaysIn(m, y)
        Ordinal(y, m, d) ==
            365 * (y - 1) + ((y - 1) \div 4) - ((y - 1) \div 100) + ((y - 1) \div 400)
                + Before(m, y) + d
        Parsed(iso, dot) ==
            IF /\ Len(iso) = 3
               /\ Digits(iso[1], {4}) /\ Digits(iso[2], {1, 2}) /\ Digits(iso[3], {1, 2})
               /\ Valid(Num(iso[1]), Num(iso[2]), Num(iso[3]))
            THEN Ordinal(Num(iso[1]), Num(iso[2]), Num(iso[3]))
            ELSE IF /\ Len(dot) = 3
                    /\ Digits(dot[1], {1, 2}) /\ Digits(dot[2], {1, 2}) /\ Digits(dot[3], {4})
                    /\ Valid(Num(dot[3]), Num(dot[2]), Num(dot[1]))
            THEN Ordinal(Num(dot[3]), Num(dot[2]), Num(dot[1]))
            ELSE IF /\ Len(dot) = 2
                    /\ Digits(dot[1], {1, 2}) /\ Digits(dot[2], {1, 2})
                    /\ Valid(1900, Num(dot[2]), Num(dot[1]))
            THEN Ordinal(year, Num(dot[2]), Num(dot[1]))
            ELSE 0
    IN Parsed(Split(strip(value), 45), Split(strip(value), 46))

\* scheduler.py:234-239 and 27-37  parse_time(value), as minutes after
\* midnight, -1 for None
parse_time(value) ==
    LET v == strip(value)
        n == Len(v)
        hour == IF n = 5 THEN 10 * (v[1] - 48) + (v[2] - 48) ELSE v[1] - 48
        minute == 10 * (v[n - 1] - 48) + (v[n] - 48)
    IN
    IF /\ n \in {4, 5}
       /\ v[n - 2] = 58
       /\ \A i \in (1..n) \ {n - 2} : v[i] \in 48..57
       /\ hour <= 23 /\ minute <= 59
    THEN 60 * hour + minute
    ELSE 0 - 1

\* An entry of "Times" and an entry of normalize_times' result, in one
\* shape: the keys of upstream (Code, code; Begin, End and the range of
\* the label under Time, as minutes after midnight) and the keys of the
\* result (label, start, end; code is shared).  An absent key is JNone, -1
\* or the pair <<-1, -1>>.
Slot(Code, code, Time, Begin, End) ==
    [Code |-> Code, code |-> code, Time |-> Time, Begin |-> Begin, End |-> End,
     label |-> <<0 - 1, 0 - 1>>, start |-> 0 - 1, end |-> 0 - 1]

\* scheduler.py:53-83  normalize_times(times)
RECURSIVE normalize_times(_)
normalize_times(times) ==
    IF times = <<>> THEN <<>>
    ELSE LET raw == Head(times)
             code == IF JTruthy(raw.Code) THEN raw.Code
                     ELSE IF JTruthy(raw.code) THEN raw.code ELSE JNone
             label == raw.Time
             ranged == (raw.Begin < 0 \/ raw.End < 0) /\ label # <<0 - 1, 0 - 1>>
             start_time == IF ranged THEN label[1] ELSE raw.Begin
             end_time == IF ranged THEN label[2] ELSE raw.End
         IN (IF code = JNone THEN <<>>
             ELSE <<[Code |-> JNone, code |-> str(code), Time |-> <<0 - 1, 0 - 1>>,
                     Begin |-> 0 - 1, End |-> 0 - 1,
                     label |-> IF label = <<0 - 1, 0 - 1>> /\ start_time >= 0
                                                         /\ end_time >= 0
                               THEN <<start_time, end_time>> ELSE label,
                     start |-> start_time, end |-> end_time]>>)
                \o normalize_times(Tail(times))

\* scheduler.py:86-94  time_to_code(times, target): the code of the first
\* normalised entry with start <= target <= end, JNone for None
time_to_code(times, target) ==
    LET First(entries, hits) ==
            IF hits = {} THEN JNone
            ELSE entries[CHOOSE i \in hits : \A j \in hits : i <= j].code
        Hits(entries) ==
            First(entries, {i \in 1..Len(entries) :
                               /\ entries[i].start >= 0 /\ entries[i].end >= 0
                               /\ entries[i].start <= target /\ target <= entries[i].end})
    IN Hits(normalize_times(times))

\* the page is rendered whatever the success count
unavailableNever(success) == FALSE

\* bot.py:218  if success == 0
unavailable(success) == success = 0

\* bot.py:120-125  prompt_day
prompt_day(b) == [b EXCEPT !.out = Said("prompt_day")]

\* the pairs are offered without a look at the groups
prompt_pairsUnchecked(b, times) ==
    [b EXCEPT !.state = "choosing_pair", !.out = Said("prompt_pairs")]

\* bot.py:128-153  prompt_pairs; times: get_times() returned some slots
prompt_pairs(b, times) ==
    IF b.groups = <<>> THEN [b EXCEPT !.out = Said("groups_empty")]
    ELSE IF ~times THEN [b EXCEPT !.out = Said("no_times")]
    ELSE [b EXCEPT !.state = "choosing_pair", !.out = Said("prompt_pairs")]

\* bot.py:160-162 and 192-194  the lazy build: rooms.json and
\* ctx.scheduler.rooms after `if not rooms: rooms = await ensure_rooms()`,
\* the session being ensure_rooms' only caller; found is what its
\* build_rooms.py run collects.
lazy_rooms(b, file, found) ==
    LET Built(after) ==
            [file |-> after,
             rooms |-> IF b.rooms = <<>> THEN load_rooms(after) ELSE b.rooms]
    IN Built(IF b.rooms = <<>> /\ load_rooms(file) = <<>>
             THEN build_rooms(file, found) ELSE file)

\* bot.py:156-179  prompt_corpus, given the rooms after the lazy build
prompt_corpus(b, rooms) ==
    IF rooms = <<>> THEN [b EXCEPT !.rooms = rooms, !.out = Said("rooms_empty")]
    ELSE [b EXCEPT !.rooms = rooms, !.state = "choosing_corpus",
                   !.out = Reply("prompt_corpus", corpus_prefixes(rooms), 0, 0, FALSE, 0)]

\* bot.py:182-252  show_results(target, state, page, refresh), given the
\* rooms after the lazy build and what fetch_all(groups) returns if asked:
\* the session afterwards and whether the day mapper saw the schedules.
show_results(b, rooms, page, refresh, schedules) ==
    LET d == b.data
        corpus_prefix == IF d.corpus_prefix = JNone THEN ALL ELSE d.corpus_prefix
        runs == refresh \/ ~d.rooms_list.has
        c == [b EXCEPT !.rooms = rooms]
        total_pages(filtered) ==
            IF Len(filtered) = 0 THEN 1
            ELSE (Len(filtered) + PAGE_SIZE - 1) \div PAGE_SIZE
        Clamped(last) == IF page > last THEN last ELSE IF page < 0 THEN 0 ELSE page
        Page(filtered, clamped, success) ==
            Reply("page", paginate(filtered, clamped, PAGE_SIZE), Len(filtered),
                  clamped, runs, success)
        Shown(filtered, success) ==
            Page(filtered, Clamped(total_pages(filtered) - 1), success)
        Stored(filtered, success) ==
            [bot |-> [c EXCEPT !.data.rooms_list =
                                   [has |-> TRUE, list |-> filtered,
                                    of |-> <<d.day_name, d.day_number, d.time_code,
                                             corpus_prefix>>],
                               !.out = Shown(filtered, success)],
             fetched |-> TRUE]
        Aggregated(r) ==
            IF r.raised
            THEN [bot |-> [c EXCEPT !.out = Reply("raised", <<>>, 0, 0, TRUE, 0)],
                  fetched |-> TRUE]
            ELSE IF unavailable(r.success)
            THEN [bot |-> [c EXCEPT !.out =
                               Reply("unavailable", <<>>, 0, 0, TRUE, r.success)],
                  fetched |-> TRUE]
            ELSE Stored(filter_rooms_by_prefix(free_rooms(rooms, r.occupied),
                                               corpus_prefix), r.success)
    IN
    IF rooms = <<>>
    THEN [bot |-> [c EXCEPT !.out = Said("rooms_empty")], fetched |-> FALSE]
    ELSE IF ~(d.day_name # "" /\ JTruthy(d.time_code))
    THEN [bot |-> prompt_day(c), fetched |-> FALSE]
    ELSE IF ~runs
    THEN [bot |-> [c EXCEPT !.out = Shown(d.rooms_list.list, 0)], fetched |-> FALSE]
    ELSE Aggregated(aggregate_occupied(schedules, d.day_name, d.day_number,
                                       str(d.time_code)))

\* ---------------------------------------------------------------- Init
FetchInit ==
    /\ hasCache \in BOOLEAN
    /\ clock = 0
    /\ permits = Width
    /\ lock = {}
    /\ data = [g \in Groups |-> NoEntry]
    /\ calls = [c \in Calls |-> IdleCall]
    /\ task = [t \in TaskIds |-> IdleTask]
    /\ clearPc = "idle"

DayInit ==
    /\ dayToNumber = [d \in DayNames |-> NoNum]
    /\ lastBatch = <<>>
    /\ history = [d \in DayNames |-> [n \in DayNums |-> 0]]
    /\ updates = 0

\* the result of one more call (call: calls made so far, modulo 2)
ApiDay(target_date, r) ==
    [has |-> TRUE, call |-> 1 - apiDay.call, date |-> target_date,
     day_name |-> r.day_name, day_num |-> r.day_num]

SchedInit ==
    /\ apiDay = [has |-> FALSE, call |-> 0, date |-> 0,
                 day_name |-> "", day_num |-> NoNum]
    /\ agg = [calls |-> 0, day_name |-> "", day_number |-> NoNum,
              time_code |-> JNone, schedules |-> <<>>,
              raised |-> FALSE, occupied |-> {}, success |-> 0]

\* no file yet, nothing loaded
StoreInit ==
    /\ store = [k \in Stores |->
                    [exists |-> FALSE, text |-> <<>>, loaded |-> <<>>,
                     arg |-> <<>>, step |-> 0]]
    /\ saves = 0

\* nobody has called ensure_rooms
EnsureInit ==
    /\ buildLock = [holder |-> 0, waiters |-> <<>>]
    /\ ens = [c \in Callers |-> Ensure("idle", <<>>, FALSE, 0)]

\* a process on groups.json before init_context ran: no context, no
\* discovery yet (read, loaded: the file load_groups read and what it gave;
\* tried, got, allow, ret: the latest fetch_groups; n: refreshes asked for)
Context(file) ==
    [file |-> file, up |-> FALSE, groups |-> <<>>, read |-> File(FALSE, <<>>),
     loaded |-> <<>>, tried |-> <<>>, got |-> <<<<>>, <<>>, <<>>>>, allow |-> FALSE,
     ret |-> <<>>, n |-> 0, said |-> "none"]

\* bot.py:386-402  init_context found these groups and rooms; no update yet
Bot(groups, rooms) ==
    [groups |-> groups, rooms |-> rooms, state |-> "none", data |-> NoData,
     out |-> Said("none")]

Init ==
    /\ FetchInit /\ DayInit /\ SchedInit /\ StoreInit /\ EnsureInit
    /\ view = View("none", <<>>, {}, JNone, 0, 1)
    /\ roomsFile = File(FALSE, <<>>)
    /\ bot = Bot(<<>>, <<>>)
    /\ grp = Context(File(FALSE, <<>>))

\* a session on a context with or without groups, with or without rooms
InitBot ==
    /\ FetchInit /\ DayInit /\ SchedInit /\ StoreInit /\ EnsureInit
    /\ view = View("none", <<>>, {}, JNone, 0, 1)
    /\ roomsFile = File(FALSE, <<>>)
    /\ bot \in {Bot(groups, rooms) :
                   groups \in {<<>>, <<"g1", "g2">>},
                   rooms \in {<<>>, <<DigitStr(<<1, 0, 1>>)>>,
                              <<DigitStr(<<1, 0, 1>>), DigitStr(<<1, 0, 2>>),
                                DigitStr(<<2, 0, 1>>)>>}}
    /\ grp = Context(File(FALSE, <<>>))

\* the room list functions, each started with arguments of its own
InitRoomLists ==
    /\ FetchInit /\ DayInit /\ SchedInit /\ StoreInit /\ EnsureInit
    /\ view \in Views
    /\ roomsFile = File(FALSE, <<>>)
    /\ bot = Bot(<<>>, <<>>)
    /\ grp = Context(File(FALSE, <<>>))

\* a process started on any of these groups.json: none, [], a text cut
\* short, the string "ba", [null, "a"], [1, "a"], the file of b-1 and a-1
InitGroups ==
    /\ FetchInit /\ DayInit /\ SchedInit /\ StoreInit /\ EnsureInit
    /\ view = View("none", <<>>, {}, JNone, 0, 1)
    /\ roomsFile = File(FALSE, <<>>)
    /\ bot = Bot(<<>>, <<>>)
    /\ grp \in {Context(file) : file \in
                   {File(FALSE, <<>>), File(TRUE, <<91, 93>>), File(TRUE, <<91, 10>>),
                    File(TRUE, <<34, 98, 97, 34>>),
                    File(TRUE, <<91, 110, 117, 108, 108, 44, 32, 34, 97, 34, 93>>),
                    File(TRUE, <<91, 49, 44, 32, 34, 97, 34, 93>>),
                    save_rooms(<<<<98, 45, 49>>, <<97, 45, 49>>>>)}}

\* ensure_rooms, started on any of the files
InitEnsure ==
    /\ FetchInit /\ DayInit /\ SchedInit /\ StoreInit /\ EnsureInit
    /\ view = View("none", <<>>, {}, JNone, 0, 1)
    /\ roomsFile \in RoomFiles
    /\ bot = Bot(<<>>, <<>>)
    /\ grp = Context(File(FALSE, <<>>))

\* ------------------------------------------------------------- actions
\* time.time() advances.
Tick ==
    /\ clock < MaxTime
    /\ clock' = clock + 1
    /\ UNCHANGED <<hasCache, permits, lock, data, calls, task, clearPc>>

\* Calls are numbered in the order they are made.
MayStart(c) ==
    /\ calls[c].pc = "idle"
    /\ \A b \in Calls : b < c => calls[b].pc # "idle"

Created == Cardinality({t \in TaskIds : task[t].pc # "idle"})

\* miet_api.py:70-81  fetch_all(groups): an empty list returns [] at once,
\* otherwise one _get_schedule coroutine per group is handed to gather.
FetchAll(c, G) ==
    /\ MayStart(c)
    /\ Created + Len(G) <= MaxTasks
    /\ IF G = <<>>
       THEN /\ calls' = [calls EXCEPT ![c] =
                   [pc |-> "returned", kind |-> "all", groups |-> G,
                    done |-> <<>>, ret |-> <<>>]]
            /\ task' = task
       ELSE /\ calls' = [calls EXCEPT ![c] =
                   [pc |-> "gather", kind |-> "all", groups |-> G,
                    done |-> <<>>, ret |-> <<>>]]
            /\ task' = [t \in TaskIds |->
                   IF t[1] = c /\ t[2] <= Len(G)
                   THEN [IdleTask EXCEPT !.pc = "start", !.group = G[t[2]]]
                   ELSE task[t]]
    /\ UNCHANGED <<hasCache, clock, permits, lock, data, clearPc>>

\* miet_api.py:61-68  fetch_one(group): one _get_schedule coroutine, awaited.
FetchOne(c, g) ==
    /\ MayStart(c)
    /\ Created + 1 <= MaxTasks
    /\ calls' = [calls EXCEPT ![c] =
           [pc |-> "gather", kind |-> "one", groups |-> <<g>>,
            done |-> <<>>, ret |-> <<>>]]
    /\ task' = [task EXCEPT ![<<c, 1>>] =
           [IdleTask EXCEPT !.pc = "start", !.group = g]]
    /\ UNCHANGED <<hasCache, clock, permits, lock, data, clearPc>>

\* A coroutine that reached its end is recorded by its call, in the order of
\* completion (gather's bookkeeping of finished awaitables).
Finish(t, tr) ==
    /\ task' = [task EXCEPT ![t] = [tr EXCEPT !.pc = "done"]]
    /\ calls' = [calls EXCEPT ![t[1]].done = Append(@, t[2])]

\* miet_api.py:43-45  _post_schedule is entered: with a permit at hand the
\* POST goes out, otherwise the coroutine waits for one.
EnterPost(t, tr) ==
    /\ IF CanAcquire(permits)
       THEN /\ permits' = permits - 1
            /\ task' = [task EXCEPT ![t] = [tr EXCEPT !.pc = "posting"]]
       ELSE /\ permits' = permits
            /\ task' = [task EXCEPT ![t] = [tr EXCEPT !.pc = "sem_wait"]]
    /\ calls' = calls

\* cache.py:16, 28  `async with self._lock` is reached: the section is entered
\* when the lock is free, otherwise the coroutine waits for it.
EnterLock(t, tr, inside, waiting) ==
    IF LockFree(lock)
    THEN /\ lock' = lock \cup {t}
         /\ task' = [task EXCEPT ![t] = [tr EXCEPT !.pc = inside]]
    ELSE /\ lock' = lock
         /\ task' = [task EXCEPT ![t] = [tr EXCEPT !.pc = waiting]]

\* miet_api.py:52-59 and cache.py:35-36, 15-16  _get_schedule starts: without
\* a cache it goes to _post_schedule; with one it enters get_or_set -> get,
\* which reads the clock and then asks for the lock.
StartTask(t) ==
    /\ task[t].pc = "start"
    /\ IF hasCache
       THEN /\ EnterLock(t, [task[t] EXCEPT !.now = clock], "get_cs", "get_lock")
            /\ UNCHANGED <<permits, calls>>
       ELSE /\ EnterPost(t, task[t])
            /\ lock' = lock
    /\ UNCHANGED <<hasCache, clock, data, clearPc>>

\* cache.py:16  get: a waiter is given the lock.
GetAcquire(t) ==
    /\ task[t].pc = "get_lock"
    /\ LockFree(lock)
    /\ lock' = lock \cup {t}
    /\ task' = [task EXCEPT ![t].pc = "get_cs"]
    /\ UNCHANGED <<hasCache, clock, permits, data, calls, clearPc>>

\* cache.py:17-24  what get finds under a key: the value it returns and
\* whether it evicts the entry.
GetValue(entry, now) ==
    IF ~entry.has THEN Null
    ELSE IF Expired(entry.exp, now) THEN Null
    ELSE entry.val

GetEvicts(entry, now) == entry.has /\ Expired(entry.exp, now)

\* cache.py:17-24, 37-39  get: the lookup, the expiry check and the eviction
\* under the lock; the lock is left; get_or_set returns a cached value and
\* otherwise invokes the factory (_post_schedule).
GetBody(t) ==
    LET tr == task[t]
        entry == data[tr.group]
        cached == GetValue(entry, tr.now)
        got == [tr EXCEPT !.now = 0]
    IN
    /\ tr.pc = "get_cs"
    /\ lock' = Release(lock, t)
    /\ data' = IF GetEvicts(entry, tr.now)
               THEN [data EXCEPT ![tr.group] = NoEntry]
               ELSE data
    /\ IF cached # Null
       THEN /\ Finish(t, [got EXCEPT !.value = cached, !.outcome = "cached"])
            /\ permits' = permits
       ELSE EnterPost(t, got)
    /\ UNCHANGED <<hasCache, clock, clearPc>>

\* miet_api.py:43  a waiter is given a permit and its POST goes out.
SemAcquire(t) ==
    /\ task[t].pc = "sem_wait"
    /\ CanAcquire(permits)
    /\ permits' = permits - 1
    /\ task' = [task EXCEPT ![t].pc = "posting"]
    /\ UNCHANGED <<hasCache, clock, lock, data, calls, clearPc>>

\* miet_api.py:45-50 and cache.py:39-41, 27-28  the request ends with an
\* upstream outcome; _post_schedule returns and gives its permit back; with a
\* cache, get_or_set goes on to set when the value is to be stored.  set
\* computes expires_at from the clock it reads here, the tick the document
\* was served in.
Respond(t, outcome) ==
    LET tr == task[t]
        v == PostResult(outcome, tr.group, clock)
        after == [tr EXCEPT !.value = v,
                            !.outcome = IF outcome = "ok" THEN "ok" ELSE "failed"]
    IN
    /\ tr.pc = "posting"
    /\ permits' = Released(permits, outcome)
    /\ IF hasCache /\ v # Exc /\ ShouldStore(v)
       THEN /\ EnterLock(t, after, "set_cs", "set_lock")
            /\ calls' = calls
       ELSE /\ Finish(t, after)
            /\ lock' = lock
    /\ UNCHANGED <<hasCache, clock, data, clearPc>>

\* cache.py:28  set: a waiter is given the lock.
SetAcquire(t) ==
    /\ task[t].pc = "set_lock"
    /\ LockFree(lock)
    /\ lock' = lock \cup {t}
    /\ task' = [task EXCEPT ![t].pc = "set_cs"]
    /\ UNCHANGED <<hasCache, clock, permits, data, calls, clearPc>>

\* cache.py:27  expires_at = time.time() + self._ttl, for a value served at `at`
ExpiresAt(at) == at + TTL

\* cache.py:29, 42  set: the entry is written, the lock is left and get_or_set
\* returns the value.
SetBody(t) ==
    LET tr == task[t] IN
    /\ tr.pc = "set_cs"
    /\ lock' = Release(lock, t)
    /\ data' = [data EXCEPT ![tr.group] = Entry(ExpiresAt(tr.value.at), tr.value)]
    /\ Finish(t, tr)
    /\ UNCHANGED <<hasCache, clock, permits, clearPc>>

\* cache.py:31-32  clear, called by some other coroutine, enters its section.
ClearAcquire ==
    /\ clearPc = "idle"
    /\ hasCache
    /\ LockFree(lock)
    /\ lock' = lock \cup {Clearer}
    /\ clearPc' = "clear_cs"
    /\ UNCHANGED <<hasCache, clock, permits, data, calls, task>>

\* cache.py:33  clear empties the map and leaves the lock.
ClearBody ==
    /\ clearPc = "clear_cs"
    /\ lock' = Release(lock, Clearer)
    /\ data' = [g \in Groups |-> NoEntry]
    /\ clearPc' = "idle"
    /\ UNCHANGED <<hasCache, clock, permits, calls, task>>

\* miet_api.py:81-89  fetch_all: gather has every result; the loop builds the
\* schedules and they are returned.
ReturnAll(c) ==
    /\ calls[c].pc = "gather"
    /\ calls[c].kind = "all"
    /\ \A i \in 1..Len(calls[c].groups) : task[<<c, i>>].pc = "done"
    /\ calls' = [calls EXCEPT ![c].pc = "returned", ![c].ret = Schedules(Gather(c))]
    /\ UNCHANGED <<hasCache, clock, permits, lock, data, task, clearPc>>

\* miet_api.py:68  fetch_one: the awaited _get_schedule value is returned; an
\* exception raised in it reaches the caller.
ReturnOne(c) ==
    LET r == TaskResult(task[<<c, 1>>]) IN
    /\ calls[c].pc = "gather"
    /\ calls[c].kind = "one"
    /\ task[<<c, 1>>].pc = "done"
    /\ calls' = [calls EXCEPT ![c].pc = IF r = Exc THEN "raised" ELSE "returned",
                              ![c].ret = <<r>>]
    /\ UNCHANGED <<hasCache, clock, permits, lock, data, task, clearPc>>

FetchNext ==
    \/ Tick
    \/ \E c \in Calls : \E G \in SeqsUpTo(MaxBatch) : FetchAll(c, G)
    \/ \E c \in Calls : \E g \in Groups : FetchOne(c, g)
    \/ \E t \in TaskIds : StartTask(t)
    \/ \E t \in TaskIds : GetAcquire(t)
    \/ \E t \in TaskIds : GetBody(t)
    \/ \E t \in TaskIds : SemAcquire(t)
    \/ \E t \in TaskIds : \E o \in Outcomes : Respond(t, o)
    \/ \E t \in TaskIds : SetAcquire(t)
    \/ \E t \in TaskIds : SetBody(t)
    \/ ClearAcquire
    \/ ClearBody
    \/ \E c \in Calls : ReturnAll(c)
    \/ \E c \in Calls : ReturnOne(c)

Next == FetchNext /\ UNCHANGED <<dayVars, schedVars, storeVars, ensureVars, bot, grp>>

Spec == Init /\ [][Next]_vars

\* ------------------------------------------------------ day mapper actions
\* how often (d, n) is counted in a batch, by the pairs extract_day yields
Counted(items, d, n) ==
    Cardinality({i \in 1..Len(items) :
                    extract_day(items[i]) = [day_name |-> d, day_num |-> n]})

\* scheduler.py:132-146  DayMapper.update_from_items(items)
UpdateFromItems(items) ==
    /\ updates < MaxUpdates
    /\ dayToNumber' = Updated(dayToNumber, items)
    /\ lastBatch' = items
    /\ history' = [d \in DayNames |-> [n \in DayNums |->
                       history[d][n] + Counted(items, d, n)]]
    /\ updates' = updates + 1

NextDayMapper ==
    /\ \E items \in BatchesUpTo(MaxItems) : UpdateFromItems(items)
    /\ UNCHANGED <<fetchVars, schedVars, storeVars, ensureVars, bot, grp>>

SpecDayMapper == Init /\ [][NextDayMapper]_vars

\* --------------------------------------------------- map_date actions
\* scheduler.py:153-156  DayMapper.date_to_api_day(target_date)
DateToApiDay(target_date) ==
    /\ apiDay' = ApiDay(target_date, date_to_api_day(dayToNumber, target_date))
    /\ dayToNumber' = dayToNumber

\* scheduler.py:183-187  Scheduler.map_date(target_date); schedule is what
\* get_reference_schedule returned.
MapDate(target_date, schedule) ==
    LET learned == IF ScheduleTruthy(schedule)
                   THEN Updated(dayToNumber, GetData(schedule))
                   ELSE dayToNumber
    IN
    /\ dayToNumber' = learned
    /\ apiDay' = ApiDay(target_date, date_to_api_day(learned, target_date))

NextMapDate ==
    /\ \/ \E d \in 1..MaxDate : DateToApiDay(d)
       \/ \E d \in 1..MaxDate : \E schedule \in Schedules1 : MapDate(d, schedule)
    /\ UNCHANGED <<fetchVars, lastBatch, history, updates, agg, view, storeVars, ensureVars, bot, grp>>

SpecMapDate == Init /\ [][NextMapDate]_vars

\* ------------------------------------------- aggregate_occupied action
\* scheduler.py:189-214  Scheduler.aggregate_occupied(day_name, day_number,
\* time_code); schedules is what fetch_all(self.groups) returned.
AggregateOccupied(day_name, day_number, time_code, schedules) ==
    LET r == aggregate_occupied(schedules, day_name, day_number, time_code) IN
    /\ dayToNumber' = update_from_schedules(dayToNumber, schedules)
    /\ agg' = [calls |-> agg.calls + 1, day_name |-> day_name,
               day_number |-> day_number, time_code |-> time_code,
               schedules |-> schedules, raised |-> r.raised,
               occupied |-> r.occupied, success |-> r.success]

NextAggregate ==
    /\ agg.calls < MaxAggs
    /\ \E schedules \in ScheduleLists :
       \E day_name \in DayNames : \E day_number \in DayNums \cup {NoNum} :
       \E time_code \in {JStr(DigitStr(<<3>>)), JInt(4), JStr(DigitStr(<<0>>))} :
           AggregateOccupied(day_name, day_number, time_code, schedules)
    /\ UNCHANGED <<fetchVars, lastBatch, history, updates, apiDay, view, storeVars, ensureVars, bot, grp>>

SpecAggregate == Init /\ [][NextAggregate]_vars

\* ------------------------------- every call that reaches the day mapper
\* scheduler.py:132-151, 183-196  update_from_items, map_date and
\* aggregate_occupied (which calls update_from_schedules) in any order
NextMapping ==
    LET given == {Schedule(TRUE, "list", items) :
                      items \in ListsUpTo({x \in ClassItems : /\ x.Room.Name # JNone
                                                              /\ x.Time.kind # "none"
                                                              /\ x.DayNumber # IntVal(0)},
                                          MaxPerCall)}
        answers == {NoSchedule, Schedule(FALSE, "absent", <<>>),
                    Schedule(TRUE, "null", <<>>)} \cup given
    IN
    /\ \/ /\ \E items \in BatchesUpTo(MaxPerCall) : UpdateFromItems(items)
          /\ UNCHANGED schedVars
       \/ /\ \E d \in 1..2 : \E schedule \in answers : MapDate(d, schedule)
          /\ UNCHANGED <<lastBatch, history, updates, agg, view>>
       \/ /\ agg.calls < MaxAggs
          /\ \E schedules \in ListsUpTo(answers, MaxBatch) :
                 AggregateOccupied("Mon", 1, JStr(DigitStr(<<3>>)), schedules)
          /\ UNCHANGED <<lastBatch, history, updates, apiDay, view>>
    /\ UNCHANGED <<fetchVars, storeVars, ensureVars, bot, grp>>

SpecMapping == Init /\ [][NextMapping]_vars

\* ---------------------------------------------------- room list actions
\* scheduler.py:216-218  Scheduler.free_rooms(occupied)
FreeRooms ==
    /\ view.op = "free_rooms" /\ ~view.done
    /\ view' = [view EXCEPT !.done = TRUE,
                            !.result = free_rooms(view.rooms, view.occupied)]

\* scheduler.py:242-245  filter_rooms_by_prefix(rooms, prefix)
FilterRoomsByPrefix ==
    /\ view.op = "filter_rooms_by_prefix" /\ ~view.done
    /\ view' = [view EXCEPT !.done = TRUE,
                            !.result = filter_rooms_by_prefix(view.rooms, view.prefix)]

\* scheduler.py:256-259  paginate(items, page, page_size)
Paginate ==
    /\ view.op = "paginate" /\ ~view.done
    /\ view' = [view EXCEPT !.done = TRUE,
                            !.result = paginate(view.rooms, view.page, view.page_size)]

NextRoomLists ==
    /\ FreeRooms \/ FilterRoomsByPrefix \/ Paginate
    /\ UNCHANGED <<fetchVars, dayVars, apiDay, agg, storeVars, ensureVars, bot, grp>>

SpecRoomLists == InitRoomLists /\ [][NextRoomLists]_vars

\* ---------------------------------------------------------- store actions
\* groups.py:147-148 and rooms.py:32-36  save_groups(names), save_rooms(names);
\* step counts the calls on this file since a list came from outside.
Save(k, names, step) ==
    store' = [store EXCEPT ![k].exists = TRUE,
                           ![k].text = dumps(normalize(names)),
                           ![k].arg = IF step = 1 THEN names ELSE @,
                           ![k].step = step]

\* a list from outside is saved
SaveNew(k, names) ==
    /\ saves < MaxSaves
    /\ Save(k, names, 1)
    /\ saves' = saves + 1

\* what was loaded is saved again
SaveLoaded(k) ==
    /\ store[k].step = 2
    /\ Save(k, store[k].loaded, 3)
    /\ saves' = saves

\* groups.py:137-144 and rooms.py:22-29  load_groups(), load_rooms()
Load(k) ==
    /\ store' = [store EXCEPT
           ![k].loaded = load_rooms(File(store[k].exists, store[k].text)),
           ![k].step = IF @ = 1 THEN 2 ELSE @]
    /\ saves' = saves

NextStore ==
    /\ \/ \E k \in Stores : \E names \in ListsUpTo(RawNames, MaxNames) : SaveNew(k, names)
       \/ \E k \in Stores : SaveLoaded(k)
       \/ \E k \in Stores : Load(k)
    /\ UNCHANGED <<fetchVars, dayVars, schedVars, ensureVars, bot, grp>>

SpecStore == Init /\ [][NextStore]_vars

\* --------------------------------------------------- ensure_rooms actions
\* rooms.py:39-55  ensure_rooms() up to its first wait
EnsureRooms(c) ==
    LET rooms == load_rooms(roomsFile)
        during == IF Building = {} THEN 0 ELSE CHOOSE b \in Building : TRUE
    IN
    /\ ens[c].pc = "idle"
    /\ IF rooms # <<>>
       THEN /\ ens' = [ens EXCEPT ![c] = Ensure("returned", rooms, FALSE, during)]
            /\ buildLock' = buildLock
       ELSE IF acquired(buildLock)
       THEN /\ ens' = [ens EXCEPT ![c] = Ensure("fetching", <<>>, TRUE, during)]
            /\ buildLock' = [buildLock EXCEPT !.holder = c]
       ELSE /\ ens' = [ens EXCEPT ![c] = Ensure("lock_wait", <<>>, FALSE, during)]
            /\ buildLock' = [buildLock EXCEPT !.waiters = Append(@, c)]
    /\ roomsFile' = roomsFile

\* rooms.py:47-55  the first waiter gets the released lock
Acquire(c) ==
    /\ ens[c].pc = "lock_wait"
    /\ buildLock.holder = 0
    /\ buildLock.waiters # <<>> /\ Head(buildLock.waiters) = c
    /\ LET rooms == load_rooms(roomsFile) IN
       IF rooms # <<>>
       THEN /\ ens' = [ens EXCEPT ![c].pc = "returned", ![c].ret = rooms]
            /\ buildLock' = [holder |-> 0, waiters |-> Tail(buildLock.waiters)]
       ELSE /\ ens' = [ens EXCEPT ![c].pc = "fetching", ![c].built = TRUE]
            /\ buildLock' = [holder |-> c, waiters |-> Tail(buildLock.waiters)]
    /\ roomsFile' = roomsFile

\* scripts/build_rooms.py:24-52  the process of caller c runs to its end
BuildRooms(c, rooms) ==
    /\ ens[c].pc = "fetching"
    /\ roomsFile' = build_rooms(roomsFile, rooms)
    /\ ens' = [ens EXCEPT ![c].pc = "exiting"]
    /\ buildLock' = buildLock

\* rooms.py:61-69  communicate() returns: load, leave the lock, return
Communicate(c) ==
    /\ ens[c].pc = "exiting"
    /\ ens' = [ens EXCEPT ![c].pc = "returned", ![c].ret = load_rooms(roomsFile)]
    /\ buildLock' = [buildLock EXCEPT !.holder = 0]
    /\ roomsFile' = roomsFile

NextEnsure ==
    /\ \/ \E c \in Callers : EnsureRooms(c)
       \/ \E c \in Callers : Acquire(c)
       \/ \E c \in Callers : \E rooms \in Found : BuildRooms(c, rooms)
       \/ \E c \in Callers : Communicate(c)
    /\ UNCHANGED <<fetchVars, dayVars, schedVars, storeVars, bot, grp>>

SpecEnsure == InitEnsure /\ [][NextEnsure]_vars

\* ------------------------------------------------------------ bot actions
\* what a build_rooms.py run started for the session can collect
Collected == IF bot.rooms = <<>> /\ load_rooms(roomsFile) = <<>> THEN Found ELSE {{}}

\* show_results on session b: the lazy build, the aggregation, the reply;
\* what fetch_all(groups) returns is drawn when the handler asks for it
ShowResults(b, page, refresh) ==
    LET Shown(lazy, schedules, r) ==
            /\ bot' = r.bot
            /\ roomsFile' = lazy.file
            /\ dayToNumber' = IF r.fetched
                               THEN update_from_schedules(dayToNumber, schedules)
                               ELSE dayToNumber
        Built(lazy) ==
            \E schedules \in
                    IF show_results(b, lazy.rooms, page, refresh, <<>>).fetched
                    THEN [1..Len(bot.groups) -> BotSchedules] ELSE {<<>>} :
                Shown(lazy, schedules,
                      show_results(b, lazy.rooms, page, refresh, schedules))
    IN \E found \in Collected : Built(lazy_rooms(b, roomsFile, found))

\* bot.py:255-260  start_handler
StartHandler ==
    /\ bot' = prompt_day([bot EXCEPT !.state = "choosing_day", !.data = NoData])
    /\ UNCHANGED <<roomsFile, dayToNumber>>

\* bot.py:289-306  day_choice; today is date.today(), schedule what
\* get_reference_schedule returns to map_date, times whether get_times
\* returns any slot
DayChoice(action, today, schedule, times) ==
    LET target_date == IF action = "today" THEN today ELSE today + 1
        reference == IF bot.groups = <<>> THEN NoSchedule ELSE schedule
        Mapped(learned, day) ==
            /\ bot' = prompt_pairs([bot EXCEPT !.data.target_date = target_date,
                                               !.data.day_name = day.day_name,
                                               !.data.day_number = day.day_num], times)
            /\ dayToNumber' = learned
            /\ roomsFile' = roomsFile
        Learned(learned) == Mapped(learned, date_to_api_day(learned, target_date))
    IN
    IF action = "pick"
    THEN /\ bot' = [bot EXCEPT !.state = "choosing_date", !.out = Said("ask_date")]
         /\ UNCHANGED <<roomsFile, dayToNumber>>
    ELSE Learned(IF ScheduleTruthy(reference)
                 THEN Updated(dayToNumber, GetData(reference)) ELSE dayToNumber)

\* bot.py:326-335  pair_choice
PairChoice(action) ==
    IF action = <<116, 105, 109, 101>>
    THEN /\ bot' = [bot EXCEPT !.state = "choosing_time", !.out = Said("ask_time")]
         /\ UNCHANGED <<roomsFile, dayToNumber>>
    ELSE LET Built(lazy) ==
                 /\ bot' = prompt_corpus([bot EXCEPT !.data.time_code = JStr(action)],
                                         lazy.rooms)
                 /\ roomsFile' = lazy.file
                 /\ dayToNumber' = dayToNumber
         IN \E found \in Collected : Built(lazy_rooms(bot, roomsFile, found))

\* bot.py:358-362  corpus_choice
CorpusChoice(prefix) ==
    ShowResults([bot EXCEPT !.data.corpus_prefix = JStr(prefix)], 0, TRUE)

\* bot.py:365-368  page_choice
PageChoice(page) == ShowResults(bot, page, FALSE)

\* bot.py:371-383  action_choice
ActionChoice(action, times) ==
    IF action = "refresh" THEN ShowResults(bot, 0, TRUE)
    ELSE /\ bot' = IF action = "change_day"
                   THEN prompt_day([bot EXCEPT !.state = "choosing_day"])
                   ELSE prompt_pairs(bot, times)
         /\ UNCHANGED <<roomsFile, dayToNumber>>

\* a date that was not understood is answered and today is stored for it
DateInputDefaults(text, year, schedule, times) ==
    /\ bot.state = "choosing_date"
    /\ bot' = [bot EXCEPT !.data.target_date = IF parse_date(text, year) = 0 THEN 1
                                               ELSE parse_date(text, year),
                          !.out = Said("bad_date")]
    /\ UNCHANGED <<dayToNumber, roomsFile>>

\* bot.py:309-323  date_input, routed in the state choosing_date; year is
\* date.today().year, schedule and times as for day_choice
DateInput(text, year, schedule, times) ==
    LET reference == IF bot.groups = <<>> THEN NoSchedule ELSE schedule
        Mapped(target_date, learned, day) ==
            /\ bot' = prompt_pairs([bot EXCEPT !.data.target_date = target_date,
                                               !.data.day_name = day.day_name,
                                               !.data.day_number = day.day_num], times)
            /\ dayToNumber' = learned
        Learned(target_date, learned) ==
            Mapped(target_date, learned, date_to_api_day(learned, target_date))
        Parsed(target_date) ==
            IF target_date = 0
            THEN /\ bot' = [bot EXCEPT !.out = Said("bad_date")]
                 /\ dayToNumber' = dayToNumber
            ELSE Learned(target_date,
                         IF ScheduleTruthy(reference)
                         THEN Updated(dayToNumber, GetData(reference))
                         ELSE dayToNumber)
    IN
    /\ bot.state = "choosing_date"
    /\ Parsed(parse_date(text, year))
    /\ roomsFile' = roomsFile

\* bot.py:338-355  time_input, routed in the state choosing_time; raw is the
\* "Times" of the reference schedule that get_times normalises
TimeInput(text, raw) ==
    LET Built(code, lazy) ==
            /\ bot' = prompt_corpus([bot EXCEPT !.data.time_code = code], lazy.rooms)
            /\ roomsFile' = lazy.file
        Coded(code) ==
            IF ~JTruthy(code)
            THEN /\ bot' = [bot EXCEPT !.out = Said("out_of_range")]
                 /\ roomsFile' = roomsFile
            ELSE \E found \in Collected : Built(code, lazy_rooms(bot, roomsFile, found))
        Timed(parsed_time, times) ==
            IF parsed_time < 0
            THEN /\ bot' = [bot EXCEPT !.out = Said("bad_time")]
                 /\ roomsFile' = roomsFile
            ELSE IF times = <<>>
            THEN /\ bot' = [bot EXCEPT !.out = Said("no_times")]
                 /\ roomsFile' = roomsFile
            ELSE Coded(time_to_code(times, parsed_time))
    IN
    /\ bot.state = "choosing_time"
    /\ Timed(parse_time(text), IF bot.groups = <<>> THEN <<>> ELSE normalize_times(raw))
    /\ dayToNumber' = dayToNumber

NextBot ==
    /\ \/ StartHandler
       \/ \E text \in {<<50, 46, 49>>, <<48, 48, 48, 49, 45, 48, 49, 45, 48, 50>>,
                        <<32, 48, 49, 46, 48, 49, 46, 48, 48, 48, 49>>,
                        <<50, 57, 46, 48, 50>>, <<97, 98>>} :
          \E schedule \in BotSchedules : \E times \in BOOLEAN :
              DateInput(text, 1, schedule, times)
       \/ \E text \in {<<>>, <<48, 57, 58, 51, 48, 32>>, <<50, 52, 58, 48, 48>>,
                        <<57, 58, 53>>} :
          \E raw \in {<<>>,
                      <<Slot(JInt(3), JNone, <<0 - 1, 0 - 1>>, 540, 630)>>,
                      <<Slot(JInt(0), JNone, <<540, 630>>, 0 - 1, 0 - 1),
                        Slot(JNone, JStr(DigitStr(<<3>>)), <<540, 630>>, 0 - 1, 0 - 1)>>} :
              TimeInput(text, raw)
       \/ \E action \in {"pick", "today", "tomorrow"} : \E today \in {1} :
          \E schedule \in IF action = "pick" THEN {NoSchedule} ELSE BotSchedules :
          \E times \in IF action = "pick" THEN {FALSE} ELSE BOOLEAN :
              DayChoice(action, today, schedule, times)
       \/ \E action \in {<<116, 105, 109, 101>>, DigitStr(<<3>>), <<>>} :
              PairChoice(action)
       \/ \E prefix \in {ALL.s, DigitStr(<<1, 0>>)} :
              CorpusChoice(prefix)
       \/ \E page \in (0 - 1)..2 : PageChoice(page)
       \/ \E action \in {"refresh", "change_day", "change_pair"} :
          \E times \in IF action = "change_pair" THEN BOOLEAN ELSE {FALSE} :
              ActionChoice(action, times)
    /\ UNCHANGED <<fetchVars, lastBatch, history, updates, schedVars, storeVars,
                   buildLock, ens, grp>>

SpecBot == InitBot /\ [][NextBot]_vars

\* ----------------------------------------- start-up and /refresh_groups
\* bot.py:386-390  init_context: the groups are loaded and, when none were,
\* discovered without guessing
InitContext(api, page, guess) ==
    LET groups == load_rooms(grp.file)
        r == refresh_groups(grp.file, FALSE, api, page, guess)
    IN
    /\ ~grp.up
    /\ grp' = IF groups # <<>>
              THEN [grp EXCEPT !.up = TRUE, !.read = grp.file, !.loaded = groups,
                               !.groups = groups]
              ELSE [grp EXCEPT !.up = TRUE, !.read = grp.file, !.loaded = groups,
                               !.groups = r.groups, !.file = r.file, !.tried = r.tried,
                               !.got = <<api, page, guess>>, !.allow = FALSE,
                               !.ret = r.groups]

\* bot.py:263-272  refresh_groups_handler
RefreshGroupsHandler(api, page, guess) ==
    LET r == refresh_groups(grp.file, TRUE, api, page, guess) IN
    /\ grp.up
    /\ grp.n < MaxRefreshes
    /\ grp' = [grp EXCEPT !.file = r.file, !.tried = r.tried,
                          !.got = <<api, page, guess>>, !.allow = TRUE,
                          !.ret = r.groups, !.n = @ + 1,
                          !.groups = IF r.groups = <<>> THEN @ ELSE r.groups,
                          !.said = IF r.groups = <<>> THEN "failed" ELSE "updated"]

\* the endpoint fails or lists blank names only, or b-2, a-2, a-2; the page
\* fails or holds c-1; the probing finds nothing or d-1
NextGroups ==
    /\ \E api \in {<<>>, <<<<32>>>>, <<<<98, 45, 50>>, <<97, 45, 50>>, <<97, 45, 50>>>>} :
       \E page \in {<<>>, <<<<99, 45, 49>>>>} : \E guess \in {<<>>, <<<<100, 45, 49>>>>} :
           \/ InitContext(api, page, guess)
           \/ RefreshGroupsHandler(api, page, guess)
    /\ UNCHANGED <<fetchVars, dayVars, schedVars, storeVars, ensureVars, bot>>

SpecGroups == InitGroups /\ [][NextGroups]_vars

\* ===================================================== client and cache
TasksOf(c) == {t \in TaskIds : t[1] = c /\ t[2] <= Len(calls[c].groups)}

InFlight == {t \in TaskIds : task[t].pc = "posting"}

InFactory == {t \in TaskIds : task[t].pc \in {"sem_wait", "posting"}}

\* The step in which coroutine t runs the body of TTLCache.get.
GetStep(t) == task[t].pc = "get_cs" /\ task'[t].pc # "get_cs"

C2_FailureContained ==
    /\ \A c \in Calls : calls[c].pc # "raised"
    /\ \A t \in TaskIds :
           /\ task[t].value # Exc
           /\ task[t].outcome = "failed" => (task[t].pc = "done" /\ task[t].value = Null)
    /\ \A c \in Calls : \A t, u \in TasksOf(c) :
           (t # u /\ task[t].outcome = "failed" /\ task[u].outcome = "ok") =>
               task[u].value = Record(task[u].group, task[u].value.at)
    /\ \A c \in Calls :
           calls[c].pc = "returned" =>
               \A i \in 1..Len(calls[c].groups) :
                   calls[c].ret[i] = task[<<c, i>>].value

\* C2 happens: in a returned batch the first fetch failed first and its
\* sibling went on to deliver its document.
C2_Witness ==
    \E c \in Calls :
        /\ calls[c].kind = "all" /\ calls[c].pc = "returned"
        /\ Len(calls[c].groups) = 2
        /\ calls[c].done = <<1, 2>>
        /\ task[<<c, 1>>].outcome = "failed"
        /\ task[<<c, 2>>].outcome = "ok"
        /\ calls[c].ret = <<Null, task[<<c, 2>>].value>>

\* C3: at most Width upstream requests of one client are in flight, counted
\* over all its running fetch_all and fetch_one calls.
C3_InFlightBounded == Cardinality(InFlight) <= Width

\* C3 happens: Width requests of two different calls are in flight and a
\* further coroutine waits for a permit.
C3_Witness ==
    /\ Cardinality(InFlight) = Width
    /\ \E t, u \in InFlight : t[1] # u[1]
    /\ \E t \in TaskIds : task[t].pc = "sem_wait"

\* C4: get_or_set never stores a null factory result: the map holds no null
\* value and no coroutine is on its way into set with one.
C4_NullNeverStored ==
    /\ \A g \in Groups : data[g].has => data[g].val # Null
    /\ \A t \in TaskIds :
           /\ task[t].pc \in {"set_lock", "set_cs"} => task[t].value # Null
           /\ task[t].outcome = "cached" => task[t].value # Null

\* C4 happens: a get_or_set of a later call is in its factory for a key whose
\* earlier get_or_set got null from its factory, the key being absent.
C4_Witness ==
    \E t, u \in TaskIds :
        /\ hasCache
        /\ t[1] < u[1]
        /\ task[t].group = task[u].group
        /\ task[t].pc = "done" /\ task[t].outcome = "failed"
        /\ calls[t[1]].pc = "returned"
        /\ task[u].pc = "posting"
        /\ ~data[task[t].group].has

\* C5: an entry is treated as absent by get exactly when now >= expires_at:
\* get returns its value when now < expires_at, and returns absent and evicts
\* it when now >= expires_at, now = expires_at included.
C5_ExpiresAtBoundary ==
    [][\A t \in TaskIds :
          (GetStep(t) /\ data[task[t].group].has) =>
              IF task[t].now >= data[task[t].group].exp
              THEN task'[t].outcome # "cached" /\ ~data'[task[t].group].has
              ELSE /\ task'[t].outcome = "cached"
                   /\ task'[t].value = data[task[t].group].val]_vars

\* C6: with an unexpired value under the key, get_or_set returns it without
\* invoking the factory; so a fetch of a group whose document was stored less
\* than TTL ago returns the cached document and takes no permit for an
\* upstream request.
C6_CachedHitSkipsFactory ==
    [][\A t \in TaskIds :
          (/\ GetStep(t)
           /\ data[task[t].group].has
           /\ \/ task[t].now < data[task[t].group].exp
              \/ task[t].now - data[task[t].group].val.at < TTL) =>
              /\ task'[t].pc = "done"
              /\ task'[t].outcome = "cached"
              /\ task'[t].value = data[task[t].group].val
              /\ permits' = permits
              /\ data' = data]_vars

\* C6 happens: a fetch ended with the document another fetch stored earlier.
C6_Witness ==
    \E t \in TaskIds :
        /\ task[t].pc = "done"
        /\ task[t].outcome = "cached"
        /\ task[t].value.group = task[t].group
        /\ \E u \in TaskIds : u # t /\ task[u].value = task[t].value
                                    /\ task[u].outcome = "ok"

\* C7: the cache lock is not held while a factory runs: no coroutine that is
\* in its factory (waiting for a permit or for upstream) holds the lock.
C7_FactoryOutsideGuard == \A t \in InFactory : t \notin lock

\* C7 happens: while one get_or_set is suspended in its factory, a coroutine
\* for another key is inside the guarded section of get.
C7_Witness ==
    \E t, u \in TaskIds :
        /\ task[t].pc = "posting"
        /\ task[u].pc = "get_cs"
        /\ u \in lock
        /\ task[t].group # task[u].group

\* C8: the map is read, written, checked for expiry and cleared only under
\* the single lock, which at most one coroutine holds; so every entry a get
\* can meet is one complete (expires_at, value) pair written by one set.
C8_GuardSerializesMap ==
    /\ Cardinality(lock) <= 1
    /\ \A t \in TaskIds : (task[t].pc \in {"get_cs", "set_cs"}) <=> (t \in lock)
    /\ (clearPc = "clear_cs") <=> (Clearer \in lock)
    /\ \A g \in Groups :
           data[g].has => data[g] = Entry(ExpiresAt(data[g].val.at), Record(g, data[g].val.at))

\* C8 happens: one coroutine is inside set's section while another waits for
\* the lock to read the same key.
C8_Witness ==
    \E t, u \in TaskIds :
        /\ task[t].pc = "set_cs"
        /\ task[u].pc = "get_lock"
        /\ task[t].group = task[u].group

\* ============================================================ day mapper
\* the largest cumulative count of a day name
TopCount(d) ==
    CHOOSE c \in {history[d][n] : n \in DayNums} :
        \A n \in DayNums : history[d][n] <= c

\* C9: after any sequence of update_from_items calls, each day name that was
\* counted is mapped to a day number with the highest count accumulated over
\* all calls so far.
C9_CumulativeMajority ==
    \A d \in DayNames :
        TopCount(d) > 0 =>
            /\ dayToNumber[d] \in DayNums
            /\ history[d][dayToNumber[d]] = TopCount(d)

\* The day number an item carries: the first of "DayNumber", "DayNum" that is
\* present, as an integer.
GivenNum(item) ==
    IF item.DayNumber.kind # "none" THEN ToInt(item.DayNumber)
    ELSE ToInt(item.DayNum)

Occurs(items, d, n) ==
    {i \in 1..Len(items) : items[i].Day = d /\ GivenNum(items[i]) = n}

\* the day numbers a day name occurs with in a batch
NumsOf(items, d) == {n \in DayNums : Occurs(items, d, n) # {}}

FirstAt(items, d, n) ==
    CHOOSE i \in Occurs(items, d, n) : \A j \in Occurs(items, d, n) : i <= j

\* the majority day number of a day name in a batch, the first met of the
\* tied ones
Majority(items, d) ==
    CHOOSE n \in NumsOf(items, d) :
        \A m \in NumsOf(items, d) \ {n} :
            \/ Cardinality(Occurs(items, d, n)) > Cardinality(Occurs(items, d, m))
            \/ /\ Cardinality(Occurs(items, d, n)) = Cardinality(Occurs(items, d, m))
               /\ FirstAt(items, d, n) < FirstAt(items, d, m)

\* C10: after update_from_items(batch), each day name that occurs in the
\* batch with a day number is mapped to the day number it occurs with most
\* often there, the first met of tied ones; items without a day name or
\* without a day number are not counted.
C10_BatchMajority ==
    \A d \in DayNames :
        NumsOf(lastBatch, d) # {} => dayToNumber[d] = Majority(lastBatch, d)

\* ========================================================= scheduler
\* the weekday names, Monday first
MondayFirst == <<"Mon", "Tue", "Wed", "Thu", "Fri", "Sat", "Sun">>

\* how many days after a Monday a date falls (date 1 is a Monday)
WeekdayIndex(d) == CHOOSE i \in 0..6 : \E k \in 0..MaxDate : d = 1 + 7 * k + i

\* C11: date_to_api_day(d) returns the weekday name of d from the
\* Monday-first table, with the learned day number of that name when there
\* is one and weekday index + 1 (1 = Monday) when the name is unmapped.
C11_DateToApiDay ==
    [][apiDay' # apiDay =>
          LET d == apiDay'.date
              name == MondayFirst[WeekdayIndex(d) + 1]
          IN
          /\ apiDay'.has /\ d \in 1..MaxDate
          /\ apiDay'.day_name = name
          /\ apiDay'.day_num =
                 IF name \in DayNames /\ dayToNumber'[name] \in DayNums
                 THEN dayToNumber'[name]
                 ELSE WeekdayIndex(d) + 1]_vars

\* C11 happens: the Monday of the second week was asked for after Monday
\* was learned as day number 2, and got 2 rather than the fallback 1.
C11_Witness ==
    /\ apiDay.has /\ apiDay.date = 8
    /\ apiDay.day_name = "Mon"
    /\ dayToNumber["Mon"] = 2
    /\ apiDay.day_num = 2

\* The time code an item carries: the first present of Time.Code, Time.code
\* when "Time" is an object, the bare string when it is one, else the first
\* present of TimeCode, TimeID; as a string.
GivenTimeCode(item) ==
    LET First(a, b) == IF a # JNone THEN a ELSE b
        code == IF item.Time.kind = "dict" THEN First(item.Time.Code, item.Time.code)
                ELSE IF item.Time.kind = "str" THEN JStr(item.Time.s)
                ELSE First(item.TimeCode, item.TimeID)
    IN IF code = JNone THEN JNone ELSE str(code)

\* the items of all non-null schedules of an aggregation
ItemsOf(schedules) ==
    UNION {{schedules[i].Data[k] : k \in 1..Len(schedules[i].Data)} :
               i \in {j \in 1..Len(schedules) : schedules[j] # NoSchedule}}

\* C12: aggregate_occupied returns as occupied exactly the non-empty room
\* names of the items of the non-null schedules whose day name equals the
\* query's or is missing, whose day number equals the query's whenever both
\* are present, and whose time code equals the query's as strings; an item
\* without room or without time code adds nothing.
C12_OccupiedExact ==
    (agg.calls > 0 /\ ~agg.raised) =>
        agg.occupied =
            {item.Room.Name.s :
                item \in {x \in ItemsOf(agg.schedules) :
                    /\ x.Day = agg.day_name \/ x.Day = NoDay
                    /\ (GivenNum(x) # NoNum /\ agg.day_number # NoNum)
                           => GivenNum(x) = agg.day_number
                    /\ GivenTimeCode(x) # JNone
                    /\ GivenTimeCode(x) = str(agg.time_code)
                    /\ x.Room.Name.kind = "str" /\ x.Room.Name.s # <<>>}}

\* C13: the success count aggregate_occupied returns is the number of groups
\* whose fetch returned a non-null schedule, schedules without data included.
C13_SuccessCountsNonNull ==
    (agg.calls > 0 /\ ~agg.raised) =>
        agg.success =
            Cardinality({i \in 1..Len(agg.schedules) : agg.schedules[i] # NoSchedule})

\* =========================================================== room lists
\* the elements of a list
Elems(q) == {q[i] : i \in 1..Len(q)}

\* how often r occurs in a list
Times(q, r) == Cardinality({i \in 1..Len(q) : q[i] = r})

\* C15: free_rooms(occupied) returns the directory's rooms that are not in
\* occupied, each once, in ascending order; occupied names that are not in
\* the directory change nothing.
C15_FreeRoomsSortedDifference ==
    (view.op = "free_rooms" /\ view.done) =>
        /\ Elems(view.result) = Elems(view.rooms) \ view.occupied
        /\ \A i \in 1..(Len(view.result) - 1) :
               StrLess(view.result[i], view.result[i + 1])

\* C15 happens: the directory 101, 102, 103 with 101 and the unknown 300
\* occupied gave 102, 103.
C15_Witness ==
    /\ view.op = "free_rooms" /\ view.done
    /\ view.rooms = <<DigitStr(<<1, 0, 1>>), DigitStr(<<1, 0, 2>>), DigitStr(<<1, 0, 3>>)>>
    /\ view.occupied = {DigitStr(<<1, 0, 1>>), DigitStr(<<3, 0, 0>>)}
    /\ view.result = <<DigitStr(<<1, 0, 2>>), DigitStr(<<1, 0, 3>>)>>

\* C16: with a two-digit corpus prefix the filter keeps exactly the rooms
\* whose first two characters are digits and are the prefix; with "all", an
\* empty or no prefix it returns every input room (in some order).
C16_CorpusFilter ==
    (view.op = "filter_rooms_by_prefix" /\ view.done) =>
        \A r \in RoomNames :
            Times(view.result, r) =
                IF view.prefix \in {JNone, JStr(<<>>), ALL}
                THEN Times(view.rooms, r)
                ELSE IF /\ Len(r) >= 2
                        /\ r[1] \in 48..57 /\ r[2] \in 48..57
                        /\ <<r[1], r[2]>> = view.prefix.s
                     THEN Times(view.rooms, r)
                     ELSE 0

\* C16 happens: the rooms 101, 201, 102 filtered by "10" gave 101, 102.
C16_Witness ==
    /\ view.op = "filter_rooms_by_prefix" /\ view.done
    /\ view.rooms = <<DigitStr(<<1, 0, 1>>), DigitStr(<<2, 0, 1>>), DigitStr(<<1, 0, 2>>)>>
    /\ view.prefix = JStr(DigitStr(<<1, 0>>))
    /\ view.result = <<DigitStr(<<1, 0, 1>>), DigitStr(<<1, 0, 2>>)>>

\* C17: paginate(items, page, page_size) returns the items at the 0-based
\* indices page * page_size .. page * page_size + page_size - 1, in their
\* order, cut at the end of the list; nothing when page * page_size is past
\* the end.
C17_PaginateWindow ==
    (view.op = "paginate" /\ view.done) =>
        LET first == view.page * view.page_size
            inside == {i \in 0..(Len(view.rooms) - 1) :
                          first <= i /\ i <= first + view.page_size - 1}
        IN /\ Len(view.result) = Cardinality(inside)
           /\ \A k \in 1..Len(view.result) : view.result[k] = view.rooms[first + k]
           /\ first >= Len(view.rooms) => view.result = <<>>

\* C17 happens: page 1 of size 2 over five items gave the items at the
\* indices 2 and 3, and page 2 would be cut at the end.
C17_Witness ==
    /\ view.op = "paginate" /\ view.done
    /\ Len(view.rooms) = 5 /\ view.page = 1 /\ view.page_size = 2
    /\ view.result = <<view.rooms[3], view.rooms[4]>>
    /\ view.rooms[3] # view.rooms[4]

\* ============================================================== stores
\* a name without its leading and trailing blanks
Trimmed(x) ==
    CHOOSE core \in {SubSeq(x, a, b) : a \in 1..(Len(x) + 1), b \in 0..Len(x)} :
        /\ \E a \in 0..Len(x) : \E b \in 0..Len(x) :
               x = [i \in 1..a |-> 32] \o core \o [i \in 1..b |-> 32]
        /\ core # <<>> => (core[1] # 32 /\ core[Len(core)] # 32)

\* the sorted, duplicate-free list of the trimmed, non-empty names of a list
NormalForm(names) ==
    LET wanted == {Trimmed(names[i]) : i \in 1..Len(names)} \ {<<>>} IN
    CHOOSE q \in [1..Cardinality(wanted) -> wanted] :
        /\ Elems(q) = wanted
        /\ \A i \in 1..(Len(q) - 1) : StrLess(q[i], q[i + 1])

\* C18: for the group and the room store alike, after save(X) the file
\* holds the sorted, duplicate-free, trimmed, empty-free form of X, load
\* returns exactly that form, and saving what was loaded leaves the file
\* with that form again; normalising twice is normalising once.
C18_SaveLoadRoundTrip ==
    \A k \in Stores :
        /\ store[k].step >= 1 =>
               /\ store[k].exists
               /\ store[k].text = dumps(NormalForm(store[k].arg))
        /\ store[k].step >= 2 => store[k].loaded = NormalForm(store[k].arg)
        /\ normalize(normalize(store[k].arg)) = normalize(store[k].arg)

\* C18 happens: "b", " a", "a" was saved to rooms.json, loaded as "a",
\* "b" and saved again.
C18_Witness ==
    /\ store["rooms"].step = 3
    /\ store["rooms"].arg = <<<<98>>, <<32, 97>>, <<97>>>>
    /\ store["rooms"].loaded = <<<<97>>, <<98>>>>
    /\ store["rooms"].text = <<91, 10, 32, 32, 34, 97, 34, 44, 10, 32, 32, 34, 98, 34, 10, 93>>

\* ========================================================= ensure_rooms
\* C19: whatever the number of concurrent ensure_rooms callers that found
\* no rooms, at most one build_rooms.py process is running at any time, and
\* it is the lock holder's.
C19_OneBuildAtATime ==
    /\ Cardinality(Building) <= 1
    /\ \A c \in Building : buildLock.holder = c

\* C19 happens: one caller's build is running while the two others, having
\* found no rooms either, wait for the lock.
C19_Witness ==
    \E b \in Callers :
        /\ ens[b].pc = "fetching"
        /\ Len(buildLock.waiters) = 2
        /\ \A c \in Callers \ {b} : ens[c].pc = "lock_wait"

\* C20: a caller that arrives while another caller's build is in progress
\* never starts a build of its own, and what it returns is what the caller
\* of that build returns, empty or not.
C20_LateCallerReusesBuild ==
    \A c \in Callers :
        ens[c].during # 0 =>
            /\ ~ens[c].built
            /\ (ens[c].pc = "returned" /\ ens[ens[c].during].pc = "returned") =>
                   ens[c].ret = ens[ens[c].during].ret

\* ================================================================ bot
\* C14: when the aggregation of a show_results call ends with success count
\* 0, the reply is the "unavailable" message, never a result page; a result
\* page comes from an aggregation with success count >= 1, or from the
\* stored rooms_list when no aggregation ran.
C14_NoPageFromFailedAggregation ==
    /\ (bot.out.ran /\ bot.out.kind # "raised" /\ bot.out.success = 0) =>
           bot.out.kind = "unavailable"
    /\ bot.out.kind = "page" =>
           \/ bot.out.ran /\ bot.out.success >= 1
           \/ /\ ~bot.out.ran /\ bot.data.rooms_list.has
              /\ bot.out.total = Len(bot.data.rooms_list.list)
              /\ \A i \in 1..Len(bot.out.items) :
                     bot.out.items[i] =
                         bot.data.rooms_list.list[bot.out.page * PAGE_SIZE + i]

\* C14 happens: with Monday, time 3 and a stored page on the session, a
\* refresh met an upstream that answered for no group and said
\* "unavailable", the stored list being kept.
C14_Witness ==
    /\ bot.out.kind = "unavailable" /\ bot.out.ran /\ bot.out.success = 0
    /\ bot.data.day_name = "Mon" /\ bot.data.time_code = JStr(DigitStr(<<3>>))
    /\ bot.groups # <<>>
    /\ bot.data.rooms_list.has

\* ==================================================== client and cache, II
\* C27: under any interleaving of fetches through one cache, every entry of
\* the map, and every value on its way into set, is a non-null schedule that
\* an upstream request for that very group key delivered; never null, never
\* another group's schedule.
C27_EntriesAreOwnFetches ==
    /\ \A g \in Groups :
           data[g].has =>
               /\ data[g].val.tag = "dict"
               /\ data[g].val.group = g
               /\ \E t \in TaskIds :
                      /\ task[t].group = g /\ task[t].outcome = "ok"
                      /\ task[t].value = data[g].val
    /\ \A t \in TaskIds :
           task[t].pc \in {"set_lock", "set_cs"} =>
               /\ task[t].outcome = "ok"
               /\ task[t].value.tag = "dict"
               /\ task[t].value.group = task[t].group

\* C27 happens: a batch over g1, g2 whose second fetch finished first has
\* returned, and the map holds each coroutine's document under its own key.
C27_Witness ==
    \E c \in Calls :
        /\ calls[c].kind = "all" /\ calls[c].pc = "returned"
        /\ calls[c].groups = <<"g1", "g2">>
        /\ calls[c].done = <<2, 1>>
        /\ data["g1"].has /\ data["g1"].val = task[<<c, 1>>].value
        /\ data["g2"].has /\ data["g2"].val = task[<<c, 2>>].value
        /\ task[<<c, 1>>].outcome = "ok" /\ task[<<c, 2>>].outcome = "ok"

\* C28: every permit taken for an upstream request is given back when the
\* request ends, by success or by failure: the permits held are those of
\* the requests in flight, and none is held once no request is in flight.
C28_PermitsReturned ==
    /\ permits \in 0..Width
    /\ Width - permits = Cardinality(InFlight)
    /\ (\A t \in TaskIds : task[t].pc \in {"idle", "done"}) => permits = Width

\* C28 happens: three fetches have ended, two of them by failure, and all
\* permits are back.
C28_Witness ==
    /\ permits = Width
    /\ \A t \in TaskIds : task[t].pc \in {"idle", "done"}
    /\ Cardinality({t \in TaskIds : task[t].pc = "done"}) = 3
    /\ Cardinality({t \in TaskIds : task[t].outcome = "failed"}) = 2
    /\ \A c \in Calls : calls[c].pc = "returned"

\* ============================================================= bot, II
\* C22: with no groups known prompt_pairs answers "the group list is
\* empty", with no rooms known after the lazy build prompt_corpus and
\* show_results answer "the room list is empty"; neither case gets a result
\* page, so neither is shown as "no free rooms".
C22_EmptyDirectoryIsSaid ==
    /\ bot.groups = <<>> => bot.out.kind \notin {"prompt_pairs", "page"}
    /\ (bot.groups = <<>> /\ bot.out.kind = "no_times") => bot.state = "choosing_time"
    /\ bot.rooms = <<>> => bot.out.kind \notin {"prompt_corpus", "unavailable", "page"}
    /\ bot.out.kind = "groups_empty" => bot.groups = <<>>
    /\ bot.out.kind = "rooms_empty" =>
           /\ bot.rooms = <<>> /\ load_rooms(roomsFile) = <<>>
           /\ ~bot.out.ran /\ bot.out.items = <<>>

\* C22 happens: with day and pair chosen and no rooms known, the lazy build
\* wrote an empty rooms.json and the handler said "the room list is empty".
C22_Witness ==
    /\ bot.out.kind = "rooms_empty"
    /\ bot.rooms = <<>> /\ roomsFile.exists
    /\ bot.groups # <<>>
    /\ bot.data.day_name = "Mon" /\ bot.data.time_code = JStr(DigitStr(<<3>>))

C23_BadInputIsRejected ==
    [][/\ bot'.out.kind \in {"bad_date", "bad_time", "out_of_range"} =>
              /\ bot'.state = bot.state
              /\ bot'.state \in {"choosing_date", "choosing_time"}
              /\ (bot'.out.kind = "bad_date") <=> (bot'.state = "choosing_date")
              /\ bot'.data = bot.data
       /\ bot'.data.target_date # 0 =>
              bot'.data.day_name = RU_WEEKDAYS[weekday(bot'.data.target_date) + 1]]_vars

\* C23 happens: with the date of a Tuesday stored, a text that is no date
\* was answered "not understood" in the state choosing_date.
C23_Witness ==
    /\ bot.out.kind = "bad_date" /\ bot.state = "choosing_date"
    /\ bot.data.target_date = 2 /\ bot.data.day_name = "Tue"

\* C24: in every order of a session's events, a result page shows a
\* rooms_list that aggregate_occupied computed for the day, the time and the
\* corpus the session holds when the page is rendered.
C24_PageOfCurrentSelection ==
    bot.out.kind = "page" =>
        bot.data.rooms_list.of =
            <<bot.data.day_name, bot.data.day_number, bot.data.time_code,
              IF bot.data.corpus_prefix = JNone THEN ALL ELSE bot.data.corpus_prefix>>

\* the (day_name, day_number) pairs the items carry, as extract_day reads them
Pairs(items) ==
    {extract_day(items[i]) : i \in 1..Len(items)} \
        {e \in {extract_day(items[i]) : i \in 1..Len(items)} :
             e.day_name = NoDay \/ e.day_num = NoNum}

\* C26: over every sequence of update_from_items, map_date and
\* aggregate_occupied calls a day name that has a number keeps having one,
\* a number changes only to one the call's items carry for that day, and a
\* call whose items carry no (day_name, day_number) pair leaves the mapping
\* as it was.
C26_MappingOnlyRefined ==
    [][/\ \A d \in DayNames : dayToNumber[d] # NoNum => dayToNumber'[d] # NoNum
       /\ updates' # updates =>
              /\ Pairs(lastBatch') = {} => dayToNumber' = dayToNumber
              /\ \A d \in DayNames : dayToNumber'[d] # dayToNumber[d] =>
                     [day_name |-> d, day_num |-> dayToNumber'[d]] \in Pairs(lastBatch')
       /\ agg'.calls # agg.calls =>
              LET all == UNION {Pairs(GetData(agg'.schedules[i])) :
                                    i \in 1..Len(agg'.schedules)}
              IN /\ all = {} => dayToNumber' = dayToNumber
                 /\ \A d \in DayNames : dayToNumber'[d] # dayToNumber[d] =>
                        [day_name |-> d, day_num |-> dayToNumber'[d]] \in all
       /\ apiDay' # apiDay =>
              \A d \in DayNames : dayToNumber'[d] # dayToNumber[d] =>
                  /\ dayToNumber'[d] # NoNum
                  /\ apiDay'.day_name = d => apiDay'.day_num = dayToNumber'[d]]_vars

\* C26 happens: Monday was learned as 1, a later call moved it to 2, and a
\* call since then that carried no pair (an aggregation over no answer and
\* a null "Data") left both days mapped.
C26_Witness ==
    /\ dayToNumber = [Mon |-> 2, Tue |-> 1]
    /\ history["Mon"][1] > 0
    /\ agg.calls > 0 /\ Len(agg.schedules) = 2
    /\ \A i \in 1..Len(agg.schedules) : GetData(agg.schedules[i]) = <<>>

\* ============================================================ groups.py
\* the file holds the JSON text of a list of strings
ListOfStrings(file) ==
    /\ file.exists
    /\ loads(file.text).ok /\ loads(file.text).kind = "list"
    /\ \A i \in 1..Len(loads(file.text).value) : loads(file.text).value[i].kind = "str"

\* C21: start-up gets through load_groups whatever groups.json holds, and
\* from an absent file, a text that is no JSON and JSON that is not a list
\* of strings it has the empty list.
C21_OnlyListsOfStringsLoad ==
    grp.up => (ListOfStrings(grp.read) \/ grp.loaded = <<>>)

\* C25: fetch_groups asks the listing endpoint, then the page, then the
\* probing; the page only after the endpoint gave no group, the probing only
\* after both gave none and with allow_guess; it returns what the first
\* strategy with a group gave, and nothing when none had any.
C25_DiscoveryInOrder ==
    LET api == normalize(grp.got[1])
        page == normalize(grp.got[2])
        guess == normalize(grp.got[3])
        order == <<"api", "page", "guess">>
    IN grp.tried # <<>> =>
        /\ Len(grp.tried) <= 3 /\ grp.tried = SubSeq(order, 1, Len(grp.tried))
        /\ Len(grp.tried) >= 2 <=> api = <<>>
        /\ Len(grp.tried) = 3 <=> (api = <<>> /\ page = <<>> /\ grp.allow)
        /\ grp.ret = IF api # <<>> THEN api
                     ELSE IF page # <<>> THEN page
                     ELSE IF grp.allow THEN guess ELSE <<>>

\* C25 happens: the endpoint listed blank names only, the page failed and
\* the probing, allowed, found d-1.
C25_Witness ==
    /\ grp.tried = <<"api", "page", "guess">> /\ grp.allow
    /\ grp.got = <<<<<<32>>>>, <<>>, <<<<100, 45, 49>>>>>>
    /\ grp.ret = <<<<100, 45, 49>>>>

\* C30: a refresh that discovered nothing leaves groups.json and the groups
\* of the context as they were; the file is only ever rewritten, and the
\* groups only ever replaced, with a non-empty, sorted list without
\* duplicates, the one discovered.
C30_EmptyRefreshChangesNothing ==
    [][LET strict(q) == /\ q # <<>>
                        /\ \A i \in 1..(Len(q) - 1) : StrLess(q[i], q[i + 1])
       IN
       /\ (grp'.tried # <<>> /\ grp' # grp /\ grp'.ret = <<>>) =>
              /\ grp'.file = grp.file
              /\ grp'.groups = grp.groups
       /\ grp'.file # grp.file =>
              /\ ListOfStrings(grp'.file)
              /\ load_rooms(grp'.file) = grp'.ret /\ strict(grp'.ret)
       /\ (grp.up /\ grp'.groups # grp.groups) =>
              /\ grp'.groups = grp'.ret /\ strict(grp'.groups)]_vars

\* C30 happens: with a-2, b-2 discovered and saved, a later refresh found
\* nothing and said so; file and groups are still a-2, b-2.
C30_Witness ==
    /\ grp.n = 2 /\ grp.said = "failed" /\ grp.ret = <<>>
    /\ grp.tried = <<"api", "page", "guess">>
    /\ grp.groups = <<<<97, 45, 50>>, <<98, 45, 50>>>>
    /\ load_rooms(grp.file) = grp.groups

====
